---------------------------- MODULE Spec2Model ----------------------------
(***************************************************************************)
(* Model of src/app.py: the Sales Order DTW tool.                          *)
(*                                                                         *)
(* A cell of a DataFrame is a value V(t, s, n):                            *)
(*   t = "nan"   a missing cell (NaN)                                      *)
(*   t = "none"  None, what row.get gives for a column that is absent      *)
(*   t = "str"   a Python str, s the sequence of its characters            *)
(*   t = "int"   a Python int n                                            *)
(*   t = "float" a Python float with value n / 10 (n counts tenths)        *)
(* A text is a sequence of atoms.  The characters of a cell are atoms of   *)
(* one character; a literal of the source (a header label, 'Y') is one     *)
(* atom, as it holds no whitespace and no separator.                       *)
(***************************************************************************)
EXTENDS Integers, Sequences, FiniteSets, TLC

VARIABLES
    pc,            \* position of main, or of the function being applied
    str_val,       \* argument of safe_str
    str_out,       \* what safe_str returned
    date_val,      \* argument of validate_date_format
    date_ok,       \* what validate_date_format returned
    xl,            \* the uploaded workbook
    df_orders,     \* DataFrame of 'Sales Order Entry' (a sequence of rows)
    df_lines,      \* DataFrame of 'Line Items Entry'
    order_count,   \* main: rows of df_orders whose 'Order #' is not NaN
    line_count,    \* main: rows of df_lines whose 'Parent Order #' is not NaN
    valid_orders,  \* the set of valid order keys
    order_errors,  \* what validate_orders returned
    line_errors,   \* what validate_lines returned
    raised,        \* an exception was raised (and, in main, caught at line 750)
    all_errors,    \* main: order_errors + line_errors
    ordr_content,  \* what generate_ordr_file returned
    rdr1_content,  \* what generate_rdr1_file returned
    timestamp,     \* main: datetime.now() at line 716
    zip_buffer,    \* main: the entries written to the archive so far
    ui,            \* what main has put on the page, in order
    calls          \* the functions called so far, in order

vars == <<pc, str_val, str_out, date_val, date_ok, xl, df_orders, df_lines, order_count, line_count,
          valid_orders, order_errors, line_errors, raised, all_errors,
          ordr_content, rdr1_content, timestamp, zip_buffer, ui, calls>>

--------------------------------------------------------------------------
(* Python values and the str methods the program uses *)

V(t, s, n) == [t |-> t, s |-> s, n |-> n]
NaN == V("nan", <<>>, 0)
None == V("none", <<>>, 0)
VStr(s) == V("str", s, 0)
VInt(n) == V("int", <<>>, n)
VFloat(m) == V("float", <<>>, m)

Digits == <<"0", "1", "2", "3", "4", "5", "6", "7", "8", "9">>
DigitSet == {Digits[i] : i \in 1..10}
Whitespace == {" ", "\t", "\n", "\r"}

\* pd.isna on a scalar
IsNa(v) == v.t \in {"nan", "none"}

DigitVal(c) == CHOOSE d \in 0..9 : Digits[d + 1] = c

RECURSIVE NatStr(_)
NatStr(n) == IF n < 10 THEN <<Digits[n + 1]>>
             ELSE NatStr(n \div 10) \o <<Digits[(n % 10) + 1]>>

\* str(n) of an int
IntStr(n) == IF n < 0 THEN <<"-">> \o NatStr(-n) ELSE NatStr(n)

\* int(x) of a float: truncation toward zero
FloatTrunc(m) == IF m < 0 THEN -((-m) \div 10) ELSE m \div 10

\* str(x) of a float: the decimal text, "5.0" for 5.0
FloatStr(m) ==
    LET a == IF m < 0 THEN -m ELSE m
    IN (IF m < 0 THEN <<"-">> ELSE <<>>) \o NatStr(a \div 10) \o <<".">>
       \o <<Digits[(a % 10) + 1]>>

\* str(v)
PyStr(v) ==
    CASE v.t = "str" -> v.s
      [] v.t = "int" -> IntStr(v.n)
      [] v.t = "float" -> FloatStr(v.n)
      [] v.t = "nan" -> <<"n", "a", "n">>
      [] OTHER -> <<"N", "o", "n", "e">>

RECURSIVE LStrip(_)
LStrip(s) == IF s # <<>> /\ Head(s) \in Whitespace THEN LStrip(Tail(s)) ELSE s

RECURSIVE RStrip(_)
RStrip(s) == IF s # <<>> /\ s[Len(s)] \in Whitespace
             THEN RStrip(SubSeq(s, 1, Len(s) - 1)) ELSE s

\* s.strip()
Strip(s) == RStrip(LStrip(s))

\* s.isdigit()
IsDigitStr(s) == s # <<>> /\ \A i \in 1..Len(s) : s[i] \in DigitSet

\* int(s) of a string of digits
RECURSIVE DigitsInt(_)
DigitsInt(s) == IF s = <<>> THEN 0
                ELSE 10 * DigitsInt(SubSeq(s, 1, Len(s) - 1)) + DigitVal(s[Len(s)])

--------------------------------------------------------------------------
(* validate_date_format *)

\* line 204: date_str
DateStrOf(date_val_) ==
    IF date_val_.t = "float" THEN IntStr(FloatTrunc(date_val_.n)) ELSE PyStr(date_val_)

validate_date_format(date_val_) ==
    IF IsNa(date_val_) THEN FALSE
    ELSE LET date_str == DateStrOf(date_val_)
         IN IF Len(date_str) # 8 THEN FALSE
            ELSE IF ~IsDigitStr(date_str) THEN FALSE
            ELSE LET y == DigitsInt(SubSeq(date_str, 1, 4))
                     m == DigitsInt(SubSeq(date_str, 5, 6))
                     d == DigitsInt(SubSeq(date_str, 7, 8))
                 IN ~(y < 1900 \/ y > 2100 \/ m < 1 \/ m > 12 \/ d < 1 \/ d > 31)

--------------------------------------------------------------------------
(* Rows, errors, and the tests the validators repeat *)

\* row.get(c, d)
GetD(row, c, d) == IF c \in DOMAIN row THEN row[c] ELSE d

\* row.get(c)
Get(row, c) == GetD(row, c, None)

\* Blank without the strip: a whitespace-only cell counts as filled
Blank_unstripped(v) == IsNa(v) \/ PyStr(v) = <<>>

\* pd.isna(x) or str(x).strip() == ''
Blank(v) == IsNa(v) \/ Strip(PyStr(v)) = <<>>

\* an error message f"Row {row_num}: {msg} '{arg}'"; the two sentinels have row 0
Err(row_num, msg, arg) == [row |-> row_num, msg |-> msg, arg |-> arg]

\* float(x): raises on a str that is no decimal literal.  num is the value
\* scaled by a power of ten, which keeps its sign; the strings of the model
\* hold no exponent, no 'inf' and no 'nan'.
DropDot(s) == LET k == CHOOSE i \in 1..Len(s) : s[i] = "."
              IN SubSeq(s, 1, k - 1) \o SubSeq(s, k + 1, Len(s))

DecimalLiteral(s) ==
    LET u == IF s # <<>> /\ Head(s) = "-" THEN Tail(s) ELSE s
        dots == {i \in 1..Len(u) : u[i] = "."}
    IN /\ Cardinality(dots) <= 1
       /\ IsDigitStr(IF dots = {} THEN u ELSE DropDot(u))

PyFloat(v) ==
    CASE v.t = "int" -> [raises |-> FALSE, num |-> v.n]
      [] v.t = "float" -> [raises |-> FALSE, num |-> v.n]
      [] v.t = "str" ->
            LET s == Strip(v.s)
            IN IF ~DecimalLiteral(s) THEN [raises |-> TRUE, num |-> 0]
               ELSE LET neg == Head(s) = "-"
                        u == IF neg THEN Tail(s) ELSE s
                        d == IF \E i \in 1..Len(u) : u[i] = "." THEN DropDot(u) ELSE u
                    IN [raises |-> FALSE,
                        num |-> IF neg THEN -DigitsInt(d) ELSE DigitsInt(d)]
      [] OTHER -> [raises |-> TRUE, num |-> 0]

--------------------------------------------------------------------------
(* validate_orders *)

NoOrders == Err(0, "No orders found in 'Sales Order Entry' sheet", <<>>)

\* lines 243-246 and 248-251: the two tests of a date column
DateErrors(row, row_num, col) ==
    IF Blank(Get(row, col)) THEN <<Err(row_num, col \o " is required", <<>>)>>
    ELSE IF ~validate_date_format(Get(row, col))
         THEN <<Err(row_num, col \o " must be YYYYMMDD format", <<>>)>>
         ELSE <<>>

\* a required text column
RequiredErrors(row, row_num, col) ==
    IF Blank(Get(row, col)) THEN <<Err(row_num, col \o " is required", <<>>)>>
    ELSE <<>>

\* OrderRowErrors with the key looked up as written, not trimmed
OrderRowErrors_untrimmed(row, row_num, seen_doc_nums) ==
    LET doc_num == PyStr(Get(row, "Order #"))
    IN (IF doc_num \in seen_doc_nums
        THEN <<Err(row_num, "Duplicate Order #", doc_num)>> ELSE <<>>)
       \o DateErrors(row, row_num, "Document Date")
       \o DateErrors(row, row_num, "Due Date")
       \o RequiredErrors(row, row_num, "Customer Code")
       \o RequiredErrors(row, row_num, "Sales Code")

\* OrderRowErrors stopping at the first rule a row breaks
OrderRowErrors_first_only(row, row_num, seen_doc_nums) ==
    LET doc_num == Strip(PyStr(Get(row, "Order #")))
        found == (IF doc_num \in seen_doc_nums
                  THEN <<Err(row_num, "Duplicate Order #", doc_num)>> ELSE <<>>)
                 \o DateErrors(row, row_num, "Document Date")
                 \o DateErrors(row, row_num, "Due Date")
                 \o RequiredErrors(row, row_num, "Customer Code")
                 \o RequiredErrors(row, row_num, "Sales Code")
    IN IF found = <<>> THEN <<>> ELSE <<Head(found)>>

\* lines 235-257: what one non-blank row appends to errors
OrderRowErrors(row, row_num, seen_doc_nums) ==
    LET doc_num == Strip(PyStr(Get(row, "Order #")))
    IN (IF doc_num \in seen_doc_nums
        THEN <<Err(row_num, "Duplicate Order #", doc_num)>> ELSE <<>>)
       \o DateErrors(row, row_num, "Document Date")
       \o DateErrors(row, row_num, "Due Date")
       \o RequiredErrors(row, row_num, "Customer Code")
       \o RequiredErrors(row, row_num, "Sales Code")

\* lines 228-257: the loop, from row i on
RECURSIVE OrdersLoop(_, _, _, _)
OrdersLoop(df, i, seen_doc_nums, errors) ==
    IF i > Len(df) THEN errors
    ELSE LET row == df[i]
             row_num == (i - 1) + 2
         IN IF Blank(Get(row, "Order #"))
            THEN OrdersLoop(df, i + 1, seen_doc_nums, errors)
            ELSE OrdersLoop(df, i + 1,
                            seen_doc_nums \cup {Strip(PyStr(Get(row, "Order #")))},
                            errors \o OrderRowErrors(row, row_num, seen_doc_nums))

validate_orders(df) ==
    IF df = <<>> THEN <<NoOrders>> ELSE OrdersLoop(df, 1, {}, <<>>)

--------------------------------------------------------------------------
(* validate_lines: [raised, errors]; raised when float() raised, errors    *)
(* then being the local list at that moment, which the caller never sees   *)

NoLines == Err(0, "No line items found in 'Line Items Entry' sheet", <<>>)

\* lines 290-293
QuantityCheck(row, row_num) ==
    IF IsNa(Get(row, "Quantity"))
    THEN [raised |-> FALSE, errors |-> <<Err(row_num, "Quantity is required", <<>>)>>]
    ELSE LET f == PyFloat(GetD(row, "Quantity", VInt(0)))
         IN IF f.raises THEN [raised |-> TRUE, errors |-> <<>>]
            ELSE IF f.num <= 0
                 THEN [raised |-> FALSE,
                       errors |-> <<Err(row_num, "Quantity must be positive", <<>>)>>]
                 ELSE [raised |-> FALSE, errors |-> <<>>]

\* lines 277-305: what one non-blank row appends to errors, and whether it raises
LineRowErrors(row, row_num, valid_order_nums) ==
    LET parent_key == Strip(PyStr(Get(row, "Parent Order #")))
        q == QuantityCheck(row, row_num)
        before ==
            (IF parent_key \notin valid_order_nums
             THEN <<Err(row_num, "Parent Order # not found in Order Headers", parent_key)>>
             ELSE <<>>)
            \o (IF IsNa(Get(row, "Line #"))
                THEN <<Err(row_num, "Line # is required", <<>>)>> ELSE <<>>)
            \o RequiredErrors(row, row_num, "Item Code")
            \o q.errors
    IN IF q.raised THEN [raised |-> TRUE, errors |-> before]
       ELSE [raised |-> FALSE,
             errors |-> before
                        \o RequiredErrors(row, row_num, "Warehouse")
                        \o RequiredErrors(row, row_num, "Sales Code")
                        \o RequiredErrors(row, row_num, "Account Code")
                        \o RequiredErrors(row, row_num, "VAT Group")]

\* lines 270-305: the loop, from row i on
RECURSIVE LinesLoop(_, _, _, _)
LinesLoop(df, i, valid_order_nums, errors) ==
    IF i > Len(df) THEN [raised |-> FALSE, errors |-> errors]
    ELSE LET row == df[i]
             row_num == (i - 1) + 2
         IN IF Blank(Get(row, "Parent Order #"))
            THEN LinesLoop(df, i + 1, valid_order_nums, errors)
            ELSE LET r == LineRowErrors(row, row_num, valid_order_nums)
                 IN IF r.raised
                    THEN [raised |-> TRUE, errors |-> errors \o r.errors]
                    ELSE LinesLoop(df, i + 1, valid_order_nums, errors \o r.errors)

validate_lines(df, valid_order_nums) ==
    IF df = <<>> THEN [raised |-> FALSE, errors |-> <<NoLines>>]
    ELSE LinesLoop(df, 1, valid_order_nums, <<>>)

--------------------------------------------------------------------------
(* The DTW file structure *)

ORDR_TOTAL_COLS == 271
RDR1_TOTAL_COLS == 244

\* field positions (0-based)
ORDR_FIELDS ==
    ("DocNum" :> 0) @@ ("DocType" :> 2) @@ ("DocDate" :> 5) @@ ("DocDueDate" :> 6)
    @@ ("CardCode" :> 7) @@ ("SalesPersonCode" :> 21) @@ ("U_AllowDOInv_Dep" :> 198)
    @@ ("U_GSTSGDRate" :> 202)

RDR1_FIELDS ==
    ("ParentKey" :> 0) @@ ("LineNum" :> 1) @@ ("ItemCode" :> 2) @@ ("Quantity" :> 4)
    @@ ("Price" :> 6) @@ ("WarehouseCode" :> 13) @@ ("SalesPersonCode" :> 14)
    @@ ("AccountCode" :> 17) @@ ("CostingCode" :> 20) @@ ("VatGroup" :> 23)
    @@ ("COGSCostingCode" :> 81) @@ ("CostingCode2" :> 87) @@ ("CostingCode3" :> 88)
    @@ ("CostingCode4" :> 89) @@ ("CostingCode5" :> 90) @@ ("COGSCostingCode2" :> 97)
    @@ ("COGSCostingCode3" :> 98) @@ ("COGSCostingCode4" :> 99)
    @@ ("COGSCostingCode5" :> 100) @@ ("U_PermitNum" :> 171) @@ ("U_GSTSGDRate" :> 183)

ORDR_HEADER_ROW1 == <<
    "DocNum", "DocEntry", "DocType", "HandWritten", "Printed", "DocDate", "DocDueDate", "CardCode",
    "CardName", "Address", "NumAtCard", "DocTotal", "AttachmentEntry", "DocCurrency", "DocRate",
    "Reference1", "Reference2", "Comments", "JournalMemo", "PaymentGroupCode", "DocTime",
    "SalesPersonCode", "TransportationCode", "Confirmed", "ImportFileNum", "SummeryType",
    "ContactPersonCode", "ShowSCN", "Series", "TaxDate", "PartialSupply", "DocObjectCode",
    "ShipToCode", "Indicator", "FederalTaxID", "DiscountPercent", "PaymentReference", "DocTotalFc",
    "Form1099", "Box1099", "RevisionPo", "RequriedDate", "CancelDate", "BlockDunning", "Pick",
    "PaymentMethod", "PaymentBlock", "PaymentBlockEntry", "CentralBankIndicator",
    "MaximumCashDiscount", "Project", "ExemptionValidityDateFrom", "ExemptionValidityDateTo",
    "WareHouseUpdateType", "Rounding", "ExternalCorrectedDocNum", "InternalCorrectedDocNum",
    "DeferredTax", "TaxExemptionLetterNum", "AgentCode", "NumberOfInstallments",
    "ApplyTaxOnFirstInstallment", "VatDate", "DocumentsOwner", "FolioPrefixString", "FolioNumber",
    "DocumentSubType", "BPChannelCode", "BPChannelContact", "Address2", "PayToCode", "ManualNumber",
    "UseShpdGoodsAct", "IsPayToBank", "PayToBankCountry", "PayToBankCode", "PayToBankAccountNo",
    "PayToBankBranch", "BPL_IDAssignedToInvoice", "DownPayment", "ReserveInvoice", "LanguageCode",
    "TrackingNumber", "PickRemark", "ClosingDate", "SequenceCode", "SequenceSerial", "SeriesString",
    "SubSeriesString", "SequenceModel", "UseCorrectionVATGroup", "DownPaymentAmount",
    "DownPaymentPercentage", "DownPaymentType", "DownPaymentAmountSC", "DownPaymentAmountFC",
    "VatPercent", "ServiceGrossProfitPercent", "OpeningRemarks", "ClosingRemarks",
    "RoundingDiffAmount", "ControlAccount", "InsuranceOperation347",
    "ArchiveNonremovableSalesQuotation", "GTSChecker", "GTSPayee", "ExtraMonth", "ExtraDays",
    "CashDiscountDateOffset", "StartFrom", "NTSApproved", "ETaxWebSite", "ETaxNumber",
    "NTSApprovedNumber", "EDocGenerationType", "EDocSeries", "EDocNum", "EDocExportFormat",
    "EDocStatus", "EDocErrorCode", "EDocErrorMessage", "DownPaymentStatus", "GroupSeries",
    "GroupNumber", "GroupHandWritten", "ReopenOriginalDocument",
    "ReopenManuallyClosedOrCanceledDocument", "CreateOnlineQuotation", "POSEquipmentNumber",
    "POSManufacturerSerialNumber", "POSCashierNumber", "ApplyCurrentVATRatesForDownPaymentsToDraw",
    "ClosingOption", "SpecifiedClosingDate", "OpenForLandedCosts", "RelevantToGTS",
    "AnnualInvoiceDeclarationReference", "Supplier", "Releaser", "Receiver",
    "BlanketAgreementNumber", "IsAlteration", "AssetValueDate", "DocumentDelivery",
    "AuthorizationCode", "StartDeliveryDate", "StartDeliveryTime", "EndDeliveryDate",
    "EndDeliveryTime", "VehiclePlate", "ATDocumentType", "ElecCommStatus", "ReuseDocumentNum",
    "ReuseNotaFiscalNum", "PrintSEPADirect", "FiscalDocNum", "POSDailySummaryNo", "POSReceiptNo",
    "PointOfIssueCode", "Letter", "FolioNumberFrom", "FolioNumberTo", "InterimType", "RelatedType",
    "RelatedEntry", "SAPPassport", "DocumentTaxID", "DateOfReportingControlStatementVAT",
    "ReportingSectionControlStatementVAT", "ExcludeFromTaxReportControlStatementVAT",
    "POS_CashRegister", "CreateQRCodeFrom", "PriceMode", "CommissionTrade", "CommissionTradeReturn",
    "UseBillToAddrToDetermineTax", "Cig", "Cup", "FatherCard", "FatherType", "ShipState",
    "ShipPlace", "CustOffice", "FCI", "AddLegIn", "LegTextF", "IndFinal", "U_LoanExpDate",
    "U_Transfer_Type", "U_IGN_RsvDue", "U_IGN_RsvSONum", "U_PCH_ApprvPay", "U_RDR_FinancingAppr",
    "U_Star_Acct", "U_AllowDOInv_Dep", "U_CustPO_Received", "U_RCN_Num", "U_POR_InventoryValue",
    "U_Appr_LowSlsPrice", "U_Appr_PO_Stock", "U_Appr_PO_NStock1", "U_Appr_PO_NStock2",
    "U_GSTSGDRate", "U_GSTSGDAmt", "U_Vessel", "U_LineBusiness", "U_RDR_IgnoreSpcTerms",
    "U_Dep_Required", "U_Dep_Received", "U_LoanAddr", "U_TRF_SlpName", "U_INM_Purpose",
    "U_ELTO_RevSchCrt", "U_ELTO_RevSchVal", "U_ELTO_RevCrtdDat", "U_ELTO_BillSchCrt",
    "U_ELTO_BillSchVal", "U_ELTO_BillCrtDat", "U_ELTO_LseTrf", "U_ELTO_LseTransNo", "U_Appr_DiffSQ",
    "U_FIN_TotalBefDisc", "U_FIN_LessDisc", "U_FIN_AddGST", "U_FIN_LessDeposit", "U_FIN_LessDepGST",
    "U_RefreshInfo", "U_PL_Remarks", "U_RDR_SellPrcSample", "U_Appr_Sample", "U_FIN_GSTDueFmFinc",
    "U_IntRemarks", "U_ImportConsign", "U_EndUserCode", "U_EndUserName", "U_TRF_AccList",
    "U_ELTO_RSVCode", "U_ELTO_ContactDetail", "U_ELTO_RsvComment", "U_FileName", "U_RDocNum",
    "U_Warehouse_Code", "U_Warehouse", "U_P_Approval_Code", "U_Customer_State", "U_Cust_Territory",
    "U_Team_Code", "U_Detailman_Code", "U_ContractNo", "U_ApplNeoComm", "U_SampleInv", "U_ETA",
    "U_RecEntry", "U_WMS_BasePick", "U_AutoPick", "U_URGENT", "U_WMS_RefNo", "U_WMS_FromHandheld",
    "U_WMS_DeviceID", "U_WMS_ScnUsr", "U_DeliveryCompt", "U_DeliveryDate", "U_CAPPSUpdate",
    "U_CAPPSUpdDat", "U_CAPPSNum", "U_OrigFile", "U_OrigName", "U_ServFile", "U_ServName",
    "U_CAPPSStsUpd", "U_CAPPSStsDat"
    >>

ORDR_HEADER_ROW2 == <<
    "DocNum", "DocEntry", "DocType", "Handwrtten", "Printed", "DocDate", "DocDueDate", "CardCode",
    "CardName", "Address", "NumAtCard", "DocTotal", "AtcEntry", "DocCur", "DocRate", "Ref1", "Ref2",
    "Comments", "JrnlMemo", "GroupNum", "DocTime", "SlpCode", "TrnspCode", "Confirmed", "ImportEnt",
    "SummryType", "CntctCode", "ShowSCN", "Series", "TaxDate", "PartSupply", "ObjType",
    "ShipToCode", "Indicator", "LicTradNum", "DiscPrcnt", "PaymentRef", "UserSign", "DocTotalFC",
    "Form1099", "Box1099", "RevisionPo", "ReqDate", "CancelDate", "BlockDunn", "Pick", "PeyMethod",
    "PayBlock", "PayBlckRef", "CntrlBnk", "MaxDscn", "Project", "FromDate", "ToDate", "UpdInvnt",
    "Rounding", "CorrExt", "CorrInv", "DeferrTax", "LetterNum", "AgentCode", "Installmnt",
    "VATFirst", "VatDate", "OwnerCode", "FolioPref", "FolioNum", "DocSubType", "BPChCode",
    "BPChCntc", "Address2", "PayToCode", "ManualNum", "UseShpdGd", "IsPaytoBnk", "BnkCntry",
    "BankCode", "BnkAccount", "BnkBranch", "BPLId", "DpmPrcnt", "isIns", "LangCode", "TrackNo",
    "PickRmrk", "ClsDate", "SeqCode", "Serial", "SeriesStr", "SubStr", "Model", "UseCorrVat",
    "DpmAmnt", "DpmPrcnt", "Posted", "DpmAmntSC", "DpmAmntFC", "VatPercent", "SrvGpPrcnt", "Header",
    "Footer", "RoundDif", "CtlAccount", "InsurOp347", "IgnRelDoc", "Checker", "Payee", "ExtraMonth",
    "ExtraDays", "CdcOffset", "PayDuMonth", "NTSApprov", "NTSWebSite", "NTSeTaxNo", "NTSApprNo",
    "EDocGenTyp", "ESeries", "EDocNum", "EDocExpFrm", "EDocStatus", "EDocErrCod", "EDocErrMsg",
    "DpmStatus", "PQTGrpSer", "PQTGrpNum", "PQTGrpHW", "ReopOriDoc", "ReopManCls", "OnlineQuo",
    "POSEqNum", "POSManufSN", "POSCashN", "DpmAsDscnt", "ClosingOpt", "SpecDate", "OpenForLaC",
    "GTSRlvnt", "AnnInvDecR", "Supplier", "Releaser", "Receiver", "AgrNo", "IsAlt", "AssetDate",
    "DocDlvry", "AuthCode", "StDlvDate", "StDlvTime", "EndDlvDate", "EndDlvTime", "VclPlate",
    "AtDocType", "ElCoStatus", "IsReuseNum", "IsReuseNFN", "PrintSEPA", "FiscDocNum", "ZrdAbs",
    "POSRcptNo", "PTICode", "Letter", "FolNumFrom", "FolNumTo", "InterimTyp", "RelatedTyp",
    "RelatedEnt", "SAPPassprt", "DocTaxID", "DateReport", "RepSection", "ExclTaxRep", "PosCashReg",
    "QRCodeSrc", "PriceMode", "ShipToCode", "ComTrade", "ComTradeRt", "UseBilAddr", "CIG", "CUP",
    "FatherCard", "FatherType", "ShipState", "ShipPlace", "CustOffice", "FCI", "AddLegIn",
    "LegTextF", "DANFELgTxt", "IndFinal", "DataVers", "U_LoanExpDate", "U_Transfer_Type",
    "U_IGN_RsvDue", "U_IGN_RsvSONum", "U_PCH_ApprvPay", "U_RDR_FinancingAppr", "U_Star_Acct",
    "U_AllowDOInv_Dep", "U_CustPO_Received", "U_RCN_Num", "U_POR_InventoryValue",
    "U_Appr_LowSlsPrice", "U_Appr_PO_Stock", "U_Appr_PO_NStock1", "U_Appr_PO_NStock2",
    "U_GSTSGDRate", "U_GSTSGDAmt", "U_Vessel", "U_LineBusiness", "U_RDR_IgnoreSpcTerms",
    "U_Dep_Required", "U_Dep_Received", "U_LoanAddr", "U_TRF_SlpName", "U_INM_Purpose",
    "U_ELTO_RevSchCrt", "U_ELTO_RevSchVal", "U_ELTO_RevCrtdDat", "U_ELTO_BillSchCrt",
    "U_ELTO_BillSchVal", "U_ELTO_BillCrtDat", "U_ELTO_LseTrf", "U_ELTO_LseTransNo", "U_Appr_DiffSQ",
    "U_FIN_TotalBefDisc", "U_FIN_LessDisc", "U_FIN_AddGST", "U_FIN_LessDeposit", "U_FIN_LessDepGST",
    "U_RefreshInfo", "U_PL_Remarks", "U_RDR_SellPrcSample", "U_Appr_Sample", "U_FIN_GSTDueFmFinc",
    "U_IntRemarks", "U_ImportConsign", "U_EndUserCode", "U_EndUserName", "U_TRF_AccList",
    "U_ELTO_RSVCode", "U_ELTO_ContactDetail", "U_ELTO_RsvComment", "U_FileName", "U_RDocNum",
    "U_Warehouse_Code", "U_Warehouse", "U_P_Approval_Code", "U_Customer_State", "U_Cust_Territory",
    "U_Team_Code", "U_Detailman_Code", "U_ContractNo", "U_ApplNeoComm", "U_SampleInv", "U_ETA",
    "U_RecEntry", "U_WMS_BasePick", "U_AutoPick", "U_URGENT", "U_WMS_RefNo", "U_WMS_FromHandheld",
    "U_WMS_DeviceID", "U_WMS_ScnUsr", "U_DeliveryCompt", "U_DeliveryDate", "U_CAPPSUpdate",
    "U_CAPPSUpdDat", "U_CAPPSNum", "U_OrigFile", "U_OrigName"
    >>

RDR1_HEADER_ROW1 == <<
    "ParentKey", "LineNum", "ItemCode", "ItemDescription", "Quantity", "ShipDate", "Price",
    "PriceAfterVAT", "Currency", "Rate", "DiscountPercent", "VendorNum", "SerialNum",
    "WarehouseCode", "SalesPersonCode", "CommisionPercent", "TreeType", "AccountCode",
    "UseBaseUnits", "SupplierCatNum", "CostingCode", "ProjectCode", "BarCode", "VatGroup",
    "Height1", "Hight1Unit", "Height2", "Height2Unit", "Lengh1", "Lengh1Unit", "Lengh2",
    "Lengh2Unit", "Weight1", "Weight1Unit", "Weight2", "Weight2Unit", "Factor1", "Factor2",
    "Factor3", "Factor4", "BaseType", "BaseEntry", "BaseLine", "Volume", "VolumeUnit", "Width1",
    "Width1Unit", "Width2", "Width2Unit", "Address", "TaxCode", "TaxType", "TaxLiable", "BackOrder",
    "FreeText", "ShippingMethod", "CorrectionInvoiceItem", "CorrInvAmountToStock",
    "CorrInvAmountToDiffAcct", "WTLiable", "DeferredTax", "MeasureUnit", "UnitsOfMeasurment",
    "LineTotal", "TaxPercentagePerRow", "TaxTotal", "ConsumerSalesForecast", "ExciseAmount",
    "CountryOrg", "SWW", "TransactionType", "DistributeExpense", "RowTotalFC", "CFOPCode",
    "CSTCode", "Usage", "TaxOnly", "UnitPrice", "LineStatus", "PackageQuantity", "LineType",
    "COGSCostingCode", "COGSAccountCode", "ChangeAssemlyBoMWarehouse", "GrossBuyPrice", "GrossBase",
    "GrossProfitTotalBasePrice", "CostingCode2", "CostingCode3", "CostingCode4", "CostingCode5",
    "ItemDetails", "LocationCode", "ActualDeliveryDate", "ExLineNo", "RequiredDate",
    "RequiredQuantity", "COGSCostingCode2", "COGSCostingCode3", "COGSCostingCode4",
    "COGSCostingCode5", "CSTforIPI", "CSTforPIS", "CSTforCOFINS", "CreditOriginCode",
    "WithoutInventoryMovement", "AgreementNo", "AgreementRowNumber", "ActualBaseEntry",
    "ActualBaseLine", "DocEntry", "Surpluses", "DefectAndBreakup", "Shortages", "ConsiderQuantity",
    "PartialRetirement", "RetirementQuantity", "RetirementAPC", "ThirdParty", "PoNum", "PoItmNum",
    "ExpenseType", "ReceiptNumber", "ExpenseOperationType", "FederalTaxID", "GrossProfit",
    "GrossProfitFC", "GrossProfitSC", "UoMEntry", "InventoryQuantity", "ParentLineNum", "Incoterms",
    "TransportMode", "NatureOfTransaction", "DestinationCountryForImport",
    "DestinationRegionForImport", "OriginCountryForExport", "OriginRegionForExport",
    "ChangeInventoryQuantityIndependently", "FreeOfChargeBP", "SACEntry", "HSNEntry", "GrossPrice",
    "GrossTotal", "GrossTotalFC", "NCMCode", "NVECode", "IndEscala", "CtrSealQty", "CNJPMan",
    "CESTCode", "UFFiscalBenefitCode", "ReverseCharge", "ShipToCode", "ShipToDescription",
    "OwnerCode", "ExternalCalcTaxRate", "ExternalCalcTaxAmount", "StandardItemIdentification",
    "CommodityClassification", "UnencumberedReason", "CUSplit", "U_ZL_SlpCode", "U_ZL_SlpName",
    "U_ZL_CardCode", "U_ZL_CardName", "U_ZL_InvoiceNum", "U_ZL_ItemCode", "U_ZL_ItemName",
    "U_BonusItem", "U_HasAlternativeItem", "U_PermitNum", "U_Has_EPoint", "U_PI_Qty", "U_PI_Price",
    "U_Redemption", "U_EPoint_Redeemed", "U_Rebate_RefNum", "U_SLS_Remarks1", "U_SLS_Remarks2",
    "U_SLS_Remarks3", "U_SLS_Remarks4", "U_SLS_Remarks5", "U_GSTSGDRate", "U_GSTSGDAmt",
    "U_Related_SO_Number", "U_Related_SO_LineNum", "U_QUT_Calc_BOM_Cost", "U_RDR_HasSpcTerms",
    "U_RDR_SpcPayTerms", "U_TRF_SerialNum", "U_ELTO_DefIncInd", "U_ELTO_ConStrDat",
    "U_ELTO_ConEndDat", "U_ELTO_FreqBill", "U_ELTO_FreqAdvRev", "U_ELTO_BillStrDat",
    "U_ELTO_LseQty", "U_ELTO_CustPO", "U_ELTO_EstBillAmt", "U_ELTO_BillId", "U_ELTO_BillLine",
    "U_ELTO_NoCustPOApp", "U_ELTO_Lease", "U_ELTO_LseItmCde", "U_ELTO_LseItmDsc", "U_ELTO_LseWhs",
    "U_ELTO_LseDlvQty", "U_ELTO_LseRtnQty", "U_ELTO_RevSchType", "U_ELTO_ContractQty",
    "U_ELTO_QtyConPrice", "U_ELTO_Prorata", "U_ELTO_BillPeriodFr", "U_ELTO_BillPeriodTo",
    "U_ELTO_BaseDocEntry", "U_ELTO_BaseDocNum", "U_ELTO_BaseRow", "U_FIN_Shown", "U_PL_CartonNum",
    "U_PL_KgCarton", "U_PL_MYRegNum", "U_TRF_VIT_Prc", "U_TRF_SellingPrice", "U_UnitPriceBP",
    "U_POCountry", "U_Invoice_No", "U_Invoice_Item", "U_Return_Ref_No", "U_P_Customer_Code",
    "U_ZP_Item_Code", "U_Credit_Reason", "U_List_Price", "U_ZP_Customer_Code", "U_Customer_Name",
    "U_ZP_Invoice_Item", "U_Customer_State", "U_Cust_Territory", "U_TempDivision", "U_RecLines",
    "U_COO", "U_TfrBinTo", "U_TrfFromBin", "U_GRN"
    >>

RDR1_HEADER_ROW2 == <<
    "DocNum", "LineNum", "ItemCode", "Dscription", "Quantity", "ShipDate", "Price", "PriceAfVAT",
    "Currency", "Rate", "DiscPrcnt", "VendorNum", "SerialNum", "WhsCode", "SlpCode", "Commission",
    "TreeType", "AcctCode", "UseBaseUn", "SubCatNum", "OcrCode", "Project", "CodeBars", "VatGroup",
    "Height1", "Hght1Unit", "Height2", "Hght2Unit", "Length1", "Len1Unit", "length2", "Len2Unit",
    "Weight1", "Wght1Unit", "Weight2", "Wght2Unit", "Factor1", "Factor2", "Factor3", "Factor4",
    "BaseType", "BaseEntry", "BaseLine", "Volume", "VolUnit", "Width1", "Wdth1Unit", "Width2",
    "Wdth2Unit", "Address", "TaxCode", "TaxType", "TaxStatus", "BackOrdr", "FreeTxt", "TrnsCode",
    "CEECFlag", "ToStock", "ToDiff", "WtLiable", "DeferrTax", "unitMsr", "NumPerMsr", "LineTotal",
    "VatPrcnt", "VatSum", "ConsumeFCT", "ExciseAmt", "CountryOrg", "SWW", "TranType", "DistribExp",
    "TotalFrgn", "CFOPCode", "CSTCode", "Usage", "TaxOnly", "PriceBefDi", "LineStatus", "PackQty",
    "LineType", "CogsOcrCod", "CogsAcct", "ChgAsmBoMW", "GrossBuyPr", "GrossBase", "GPTtlBasPr",
    "OcrCode2", "OcrCode3", "OcrCode4", "OcrCode5", "Text", "LocCode", "ActDelDate", "ExLineNo",
    "PQTReqDate", "PQTReqQty", "CogsOcrCo2", "CogsOcrCo3", "CogsOcrCo4", "CogsOcrCo5", "CSTfIPI",
    "CSTfPIS", "CSTfCOFINS", "CredOrigin", "NoInvtryMv", "AgrNo", "AgrLnNum", "ActBaseEnt",
    "ActBaseLn", "DocEntry", "Surpluses", "DefBreak", "Shortages", "NeedQty", "PartRetire",
    "RetireQty", "RetireAPC", "ThirdParty", "PoNum", "PoItmNum", "ExpType", "ExpUUID", "ExpOpType",
    "LicTradNum", "GrssProfit", "GrssProfFC", "GrssProfSC", "SpecPrice", "UomEntry", "InvQty",
    "PrntLnNum", "Incoterms", "TransMod", "NatOfTrans", "ISDtCryImp", "ISDtRgnImp", "ISOrCryExp",
    "ISOrRgnExp", "InvQtyOnly", "FreeChrgBP", "SacEntry", "HsnEntry", "GPBefDisc", "GTotal",
    "GTotalFC", "NCMCode", "NVECode", "IndEscala", "CtrSealQty", "CNJPMan", "CESTCode",
    "UFFiscBene", "RevCharge", "ShipToCode", "ShipToDesc", "OwnerCode", "ExtTaxRate", "ExtTaxSum",
    "ExtTaxSumF", "ExtTaxSumS", "StdItemId", "CommClass", "UnencReasn", "CUSplit", "U_ZL_SlpCode",
    "U_ZL_SlpName", "U_ZL_CardCode", "U_ZL_CardName", "U_ZL_InvoiceNum", "U_ZL_ItemCode",
    "U_ZL_ItemName", "U_BonusItem", "U_HasAlternativeItem", "U_PermitNum", "U_Has_EPoint",
    "U_PI_Qty", "U_PI_Price", "U_Redemption", "U_EPoint_Redeemed", "U_Rebate_RefNum",
    "U_SLS_Remarks1", "U_SLS_Remarks2", "U_SLS_Remarks3", "U_SLS_Remarks4", "U_SLS_Remarks5",
    "U_GSTSGDRate", "U_GSTSGDAmt", "U_Related_SO_Number", "U_Related_SO_LineNum",
    "U_QUT_Calc_BOM_Cost", "U_RDR_HasSpcTerms", "U_RDR_SpcPayTerms", "U_TRF_SerialNum",
    "U_ELTO_DefIncInd", "U_ELTO_ConStrDat", "U_ELTO_ConEndDat", "U_ELTO_FreqBill",
    "U_ELTO_FreqAdvRev", "U_ELTO_BillStrDat", "U_ELTO_LseQty", "U_ELTO_CustPO", "U_ELTO_EstBillAmt",
    "U_ELTO_BillId", "U_ELTO_BillLine", "U_ELTO_NoCustPOApp", "U_ELTO_Lease", "U_ELTO_LseItmCde",
    "U_ELTO_LseItmDsc", "U_ELTO_LseWhs", "U_ELTO_LseDlvQty", "U_ELTO_LseRtnQty",
    "U_ELTO_RevSchType", "U_ELTO_ContractQty", "U_ELTO_QtyConPrice", "U_ELTO_Prorata",
    "U_ELTO_BillPeriodFr", "U_ELTO_BillPeriodTo", "U_ELTO_BaseDocEntry", "U_ELTO_BaseDocNum",
    "U_ELTO_BaseRow", "U_FIN_Shown", "U_PL_CartonNum", "U_PL_KgCarton", "U_PL_MYRegNum",
    "U_TRF_VIT_Prc", "U_TRF_SellingPrice", "U_UnitPriceBP", "U_POCountry", "U_Invoice_No",
    "U_Invoice_Item", "U_Return_Ref_No", "U_P_Customer_Code", "U_ZP_Item_Code", "U_Credit_Reason",
    "U_List_Price", "U_ZP_Customer_Code", "U_Customer_Name", "U_ZP_Invoice_Item",
    "U_Customer_State", "U_Cust_Territory", "U_TempDivision", "U_RecLines", "U_COO"
    >>

--------------------------------------------------------------------------
(* File generation *)

TAB == "\t"
CRLF == <<"\r", "\n">>

\* sep.join(xs[lo..hi]) of a list of texts
RECURSIVE JoinRange(_, _, _, _)
JoinRange(xs, lo, hi, sep) ==
    IF lo > hi THEN <<>>
    ELSE IF lo = hi THEN xs[lo]
    ELSE LET mid == (lo + hi) \div 2
         IN JoinRange(xs, lo, mid, sep) \o sep \o JoinRange(xs, mid + 1, hi, sep)

\* sep.join(xs)
Join(xs, sep) == JoinRange(xs, 1, Len(xs), sep)

\* a list of literals as a list of texts of one atom each
Atoms(labels) == [i \in 1..Len(labels) |-> <<labels[i]>>]

format_date(val) ==
    IF IsNa(val) THEN <<>>
    ELSE IF val.t = "int" THEN IntStr(val.n)
    ELSE IF val.t = "float" THEN IntStr(FloatTrunc(val.n))
    ELSE Strip(PyStr(val))

\* safe_str without the test of line 327: every float as str(val)
safe_str_keeps_point_zero(val) ==
    IF IsNa(val) THEN <<>>
    ELSE IF val.t = "float" THEN FloatStr(val.n)
         ELSE Strip(PyStr(val))

safe_str(val) ==
    IF IsNa(val) THEN <<>>
    ELSE IF val.t = "float"
         THEN IF val.n % 10 = 0 THEN IntStr(FloatTrunc(val.n)) ELSE FloatStr(val.n)
         ELSE Strip(PyStr(val))

\* data[fields[name]] = text, on a list indexed from 1
SetField(data, fields, name, text) == [data EXCEPT ![fields[name] + 1] = text]

\* lines 348-359: the field array of one order row
OrdrData(row) ==
    LET d0 == [i \in 1..ORDR_TOTAL_COLS |-> <<>>]
        d1 == SetField(d0, ORDR_FIELDS, "DocNum", safe_str(Get(row, "Order #")))
        d2 == SetField(d1, ORDR_FIELDS, "DocType", <<"dDocument_Items">>)
        d3 == SetField(d2, ORDR_FIELDS, "DocDate", format_date(Get(row, "Document Date")))
        d4 == SetField(d3, ORDR_FIELDS, "DocDueDate", format_date(Get(row, "Due Date")))
        d5 == SetField(d4, ORDR_FIELDS, "CardCode", safe_str(Get(row, "Customer Code")))
        d6 == SetField(d5, ORDR_FIELDS, "SalesPersonCode", safe_str(Get(row, "Sales Code")))
        d7 == SetField(d6, ORDR_FIELDS, "U_AllowDOInv_Dep", <<"Y">>)
    IN SetField(d7, ORDR_FIELDS, "U_GSTSGDRate", safe_str(GetD(row, "Branch ID", VInt(9))))

\* lines 344-361: the data lines, from row i on
RECURSIVE OrdrLines(_, _)
OrdrLines(df, i) ==
    IF i > Len(df) THEN <<>>
    ELSE IF Blank(Get(df[i], "Order #")) THEN OrdrLines(df, i + 1)
    ELSE <<Join(OrdrData(df[i]), <<TAB>>)>> \o OrdrLines(df, i + 1)

generate_ordr_file(df) ==
    LET lines == <<Join(Atoms(ORDR_HEADER_ROW1), <<TAB>>),
                   Join(Atoms(ORDR_HEADER_ROW2), <<TAB>>)>> \o OrdrLines(df, 1)
    IN Join(lines, CRLF) \o CRLF

\* lines 382-417: the field array of one line row
Rdr1Data(row) ==
    LET dim1 == safe_str(GetD(row, "Dim 1", VStr(<<>>)))
        dim2 == safe_str(GetD(row, "Dim 2", VStr(<<>>)))
        dim3 == safe_str(GetD(row, "Dim 3", VStr(<<>>)))
        dim4 == safe_str(GetD(row, "Dim 4", VStr(<<>>)))
        dim5 == safe_str(GetD(row, "Dim 5", VStr(<<>>)))
        d0 == [i \in 1..RDR1_TOTAL_COLS |-> <<>>]
        d1 == SetField(d0, RDR1_FIELDS, "ParentKey", safe_str(Get(row, "Parent Order #")))
        d2 == SetField(d1, RDR1_FIELDS, "LineNum", safe_str(Get(row, "Line #")))
        d3 == SetField(d2, RDR1_FIELDS, "ItemCode", safe_str(Get(row, "Item Code")))
        d4 == SetField(d3, RDR1_FIELDS, "Quantity", safe_str(Get(row, "Quantity")))
        d5 == SetField(d4, RDR1_FIELDS, "Price", safe_str(GetD(row, "Unit Price", VStr(<<>>))))
        d6 == SetField(d5, RDR1_FIELDS, "WarehouseCode", safe_str(Get(row, "Warehouse")))
        d7 == SetField(d6, RDR1_FIELDS, "SalesPersonCode", safe_str(Get(row, "Sales Code")))
        d8 == SetField(d7, RDR1_FIELDS, "AccountCode", safe_str(Get(row, "Account Code")))
        d9 == SetField(d8, RDR1_FIELDS, "VatGroup", safe_str(Get(row, "VAT Group")))
        c1 == SetField(d9, RDR1_FIELDS, "CostingCode", dim1)
        c2 == SetField(c1, RDR1_FIELDS, "CostingCode2", dim2)
        c3 == SetField(c2, RDR1_FIELDS, "CostingCode3", dim3)
        c4 == SetField(c3, RDR1_FIELDS, "CostingCode4", dim4)
        c5 == SetField(c4, RDR1_FIELDS, "CostingCode5", dim5)
        g1 == SetField(c5, RDR1_FIELDS, "COGSCostingCode", dim1)
        g2 == SetField(g1, RDR1_FIELDS, "COGSCostingCode2", dim2)
        g3 == SetField(g2, RDR1_FIELDS, "COGSCostingCode3", dim3)
        g4 == SetField(g3, RDR1_FIELDS, "COGSCostingCode4", dim4)
        g5 == SetField(g4, RDR1_FIELDS, "COGSCostingCode5", dim5)
        p1 == SetField(g5, RDR1_FIELDS, "U_PermitNum", safe_str(GetD(row, "Permit #", VStr(<<>>))))
    IN SetField(p1, RDR1_FIELDS, "U_GSTSGDRate", safe_str(GetD(row, "Branch", VInt(9))))

\* lines 377-419: the data lines, from row i on
RECURSIVE Rdr1Lines(_, _)
Rdr1Lines(df, i) ==
    IF i > Len(df) THEN <<>>
    ELSE IF Blank(Get(df[i], "Parent Order #")) THEN Rdr1Lines(df, i + 1)
    ELSE <<Join(Rdr1Data(df[i]), <<TAB>>)>> \o Rdr1Lines(df, i + 1)

generate_rdr1_file(df) ==
    LET lines == <<Join(Atoms(RDR1_HEADER_ROW1), <<TAB>>),
                   Join(Atoms(RDR1_HEADER_ROW2), <<TAB>>)>> \o Rdr1Lines(df, 1)
    IN Join(lines, CRLF) \o CRLF

--------------------------------------------------------------------------
(* The inputs of the model *)

MaxRows == 4          \* main: rows of the two sheets together
MaxOrderRows == 3     \* validate_orders alone: rows of the table
MaxLineRows == 2      \* validate_lines alone: rows of the table

OrderRow(key, doc, due, cust, sales, branch) ==
    ("Order #" :> key) @@ ("Document Date" :> doc) @@ ("Due Date" :> due)
    @@ ("Customer Code" :> cust) @@ ("Sales Code" :> sales) @@ ("Branch ID" :> branch)

LineRow(parent, line, item, qty, wh, sales, acct, vat) ==
    ("Parent Order #" :> parent) @@ ("Line #" :> line) @@ ("Item Code" :> item)
    @@ ("Quantity" :> qty) @@ ("Unit Price" :> NaN) @@ ("Warehouse" :> wh)
    @@ ("Sales Code" :> sales) @@ ("Account Code" :> acct) @@ ("VAT Group" :> vat)
    @@ ("Dim 1" :> VStr(<<"D">>)) @@ ("Dim 2" :> NaN) @@ ("Dim 3" :> NaN)
    @@ ("Dim 4" :> NaN) @@ ("Dim 5" :> NaN) @@ ("Permit #" :> NaN)
    @@ ("Branch" :> VInt(9))

Tables(rows, n) == UNION {[1..k -> rows] : k \in 0..n}

GoodDate == VInt(20260115)
Feb31 == VStr(IntStr(20260231))
ShortDate == VStr(IntStr(2026115))
Month13 == VInt(20261301)
KeyA == VStr(<<"A">>)
KeyA_ == VStr(<<" ", "A">>)
KeyB == VStr(<<"B">>)

\* (doc, due, cust, sales) of an order row: clean, one rule broken, all broken
OrderProfiles ==
    {<<GoodDate, Feb31, VStr(<<"C">>), VInt(48)>>,
     <<NaN, GoodDate, VStr(<<"C">>), VInt(48)>>,
     <<GoodDate, ShortDate, VStr(<<"C">>), VInt(48)>>,
     <<GoodDate, GoodDate, VStr(<<" ">>), VInt(48)>>,
     <<GoodDate, GoodDate, VStr(<<"C">>), NaN>>,
     <<Month13, VStr(<<" ">>), NaN, VStr(<<" ">>)>>}

CleanOrder == <<GoodDate, Feb31, VStr(<<"C">>), VInt(48)>>
BadOrder == <<Month13, VStr(<<" ">>), NaN, VStr(<<" ">>)>>

MkOrder(key, p) == OrderRow(key, p[1], p[2], p[3], p[4], VInt(9))

\* rows for validate_orders alone
OrderRowsF ==
    {MkOrder(KeyA, p) : p \in OrderProfiles}
    \cup {MkOrder(k, p) : k \in {KeyA_, KeyB, NaN}, p \in {CleanOrder, BadOrder}}
    \cup {MkOrder(VStr(<<" ">>), BadOrder)}

\* rows for main
OrderRowsM ==
    {MkOrder(NaN, CleanOrder), MkOrder(VStr(<<" ">>), BadOrder), MkOrder(KeyA, CleanOrder),
     MkOrder(KeyA, BadOrder), MkOrder(KeyA_, CleanOrder)}

MkLine(parent, qty, clean) ==
    IF clean
    THEN LineRow(parent, VInt(1), VStr(<<"I">>), qty, VStr(<<"W">>), VInt(48),
                 VStr(<<"K">>), VStr(<<"S">>))
    ELSE LineRow(parent, NaN, VStr(<<" ">>), qty, NaN, VStr(<<" ">>), NaN, VStr(<<>>))

Quantities == {NaN, VInt(1), VInt(0), VFloat(-5), VStr(<<"x">>), VStr(<<"0">>),
               VStr(<<" ", "2", ".", "5">>)}

\* rows for validate_lines alone
LineRowsF ==
    {MkLine(KeyA, q, c) : q \in Quantities, c \in BOOLEAN}
    \cup {MkLine(KeyB, VInt(1), TRUE), MkLine(KeyB, NaN, FALSE),
          MkLine(NaN, VStr(<<"x">>), FALSE), MkLine(NaN, VInt(1), TRUE),
          MkLine(VStr(<<" ">>), VStr(<<"x">>), FALSE)}

ValidSetsF == {{<<"A">>}, {<<"A">>, <<>>}, {}}

\* rows for main
LineRowsM ==
    {MkLine(NaN, VInt(1), TRUE), MkLine(VStr(<<" ">>), VStr(<<"x">>), FALSE),
     MkLine(KeyA, VInt(1), TRUE), MkLine(KeyA, NaN, TRUE), MkLine(KeyA, VStr(<<"x">>), TRUE),
     MkLine(KeyB, VInt(1), TRUE), MkLine(KeyB, VStr(<<"x">>), TRUE)}

RequiredSheets == {"Sales Order Entry", "Line Items Entry"}

Workbook(readable, names, orders, lines) ==
    [readable |-> readable, sheet_names |-> names, orders |-> orders, lines |-> lines]

\* rows that break many rules, for workbooks with long error lists
MaxBadRows == 5       \* main: rows of each sheet of such a workbook
BadOrderRows == {MkOrder(KeyA, BadOrder), MkOrder(KeyA, CleanOrder)}
BadLineRows == {MkLine(KeyB, NaN, FALSE)}

\* rows whose keys are numbers, or texts that read as numbers
MaxKeyRows == 2       \* main: rows of each sheet of such a workbook
Five == VStr(<<"5">>)
FivePointZero == VStr(<<"5", ".", "0">>)
NumericKeys == {VInt(5), VFloat(50), Five, FivePointZero}
KeyOrderRows == {MkOrder(k, CleanOrder) : k \in NumericKeys}
KeyLineRows == {MkLine(k, VInt(1), TRUE) : k \in NumericKeys}

Workbooks ==
    {Workbook(TRUE, RequiredSheets \cup {"Instructions"}, o, l) :
        <<o, l>> \in {t \in Tables(OrderRowsM, MaxRows) \X Tables(LineRowsM, MaxRows) :
                        Len(t[1]) + Len(t[2]) <= MaxRows}}
    \cup {Workbook(r, n, <<MkOrder(KeyA, CleanOrder)>>, <<MkLine(KeyA, VInt(1), TRUE)>>) :
            r \in BOOLEAN, n \in SUBSET RequiredSheets}
    \cup {Workbook(TRUE, RequiredSheets, o, l) :
            o \in Tables(BadOrderRows, MaxBadRows), l \in Tables(BadLineRows, MaxBadRows)}
    \cup {Workbook(TRUE, RequiredSheets, o, l) :
            o \in Tables(KeyOrderRows, MaxKeyRows), l \in Tables(KeyLineRows, MaxKeyRows)}

Timestamps == {"20250601_120000", "20250601_120001"}

DateYears == {IntStr(1899), IntStr(1900), IntStr(2026), IntStr(2100), IntStr(2101),
              <<"a", "b", "c", "d">>}
DateMonths == {<<"0", "0">>, <<"0", "1">>, <<"0", "2">>, <<"1", "2">>, <<"1", "3">>, <<"1">>}
DateDays == {<<"0", "0">>, <<"0", "1">>, <<"1", "5">>, <<"3", "1">>, <<"3", "2">>}
DateStrings == {y \o m \o d : y \in DateYears, m \in DateMonths, d \in DateDays}
DateNumbers == {DigitsInt(s) : s \in {t \in DateStrings : IsDigitStr(t)}}

DateVals ==
    {NaN, None, VStr(<<>>), VStr(<<" ">> \o IntStr(20260115)),
     VStr(IntStr(20260115) \o <<" ">>), VInt(-2026011), VFloat(-20260110)}
    \cup {VStr(s) : s \in DateStrings}
    \cup {VInt(n) : n \in DateNumbers}
    \cup {VFloat(10 * n + f) : n \in DateNumbers, f \in {0, 5}}

--------------------------------------------------------------------------
(* main, lines 640-752: one run of the script with a file uploaded *)

Unset ==
    /\ str_val = NaN /\ str_out = <<>>
    /\ date_val = NaN /\ date_ok = FALSE
    /\ df_orders = <<>> /\ df_lines = <<>>
    /\ order_count = 0 /\ line_count = 0
    /\ valid_orders = {} /\ order_errors = <<>> /\ line_errors = <<>>
    /\ raised = FALSE /\ all_errors = <<>>
    /\ ordr_content = <<>> /\ rdr1_content = <<>>
    /\ timestamp = "" /\ zip_buffer = <<>>
    /\ ui = <<>> /\ calls = <<>>

Init ==
    /\ pc = "start"
    /\ xl \in Workbooks
    /\ Unset

Show(kind, data) == [kind |-> kind, data |-> data]

\* lines 750-752
Except == ui' = Append(ui, Show("error", "Error reading file")) /\ raised' = TRUE

\* rows whose key column is not NaN: df[df[col].notna()].shape[0]
NotNaCount(df, col) == Cardinality({i \in 1..Len(df) : ~IsNa(df[i][col])})

\* ReadExcel reporting the missing sheets and reading the sheets all the same
ReadExcel_reads_on ==
    /\ pc = "start"
    /\ IF ~xl.readable
       THEN /\ Except
            /\ pc' = "done"
            /\ UNCHANGED <<df_orders, df_lines, calls>>
       ELSE LET missing_sheets == RequiredSheets \ xl.sheet_names
            IN /\ ui' = IF missing_sheets # {}
                        THEN Append(ui, Show("missing_sheets", missing_sheets)) ELSE ui
               /\ df_orders' = xl.orders
               /\ df_lines' = xl.lines
               /\ calls' = calls \o <<"read_excel", "read_excel">>
               /\ pc' = "preview"
               /\ UNCHANGED raised
    /\ UNCHANGED <<str_val, str_out, date_val, date_ok, xl, order_count, line_count,
                   valid_orders, order_errors, line_errors, all_errors, ordr_content,
                   rdr1_content, timestamp, zip_buffer>>

\* lines 644-656
ReadExcel ==
    /\ pc = "start"
    /\ IF ~xl.readable
       THEN /\ Except
            /\ pc' = "done"
            /\ UNCHANGED <<df_orders, df_lines, calls>>
       ELSE LET missing_sheets == RequiredSheets \ xl.sheet_names
            IN IF missing_sheets # {}
               THEN /\ ui' = Append(ui, Show("missing_sheets", missing_sheets))
                    /\ pc' = "done"
                    /\ UNCHANGED <<df_orders, df_lines, calls, raised>>
               ELSE /\ df_orders' = xl.orders
                    /\ df_lines' = xl.lines
                    /\ calls' = calls \o <<"read_excel", "read_excel">>
                    /\ pc' = "preview"
                    /\ UNCHANGED <<ui, raised>>
    /\ UNCHANGED <<str_val, str_out, date_val, date_ok, xl, order_count, line_count, valid_orders,
                   order_errors, line_errors, all_errors, ordr_content, rdr1_content,
                   timestamp, zip_buffer>>

\* lines 659-675
Preview ==
    /\ pc = "preview"
    /\ order_count' = NotNaCount(df_orders, "Order #")
    /\ line_count' = NotNaCount(df_lines, "Parent Order #")
    /\ ui' = ui \o <<Show("orders_found", order_count'), Show("lines_found", line_count')>>
    /\ pc' = "valid_orders"
    /\ UNCHANGED <<str_val, str_out, date_val, date_ok, xl, df_orders, df_lines, valid_orders,
                   order_errors, line_errors, raised, all_errors, ordr_content,
                   rdr1_content, timestamp, zip_buffer, calls>>

\* lines 684-687
ValidOrders(df) ==
    {Strip(PyStr(Get(df[i], "Order #"))) : i \in {j \in 1..Len(df) : ~IsNa(Get(df[j], "Order #"))}}

ComputeValidOrders ==
    /\ pc = "valid_orders"
    /\ valid_orders' = ValidOrders(df_orders)
    /\ pc' = "validate_orders"
    /\ UNCHANGED <<str_val, str_out, date_val, date_ok, xl, df_orders, df_lines, order_count, line_count,
                   order_errors, line_errors, raised, all_errors, ordr_content,
                   rdr1_content, timestamp, zip_buffer, ui, calls>>

\* line 689
CallValidateOrders ==
    /\ pc = "validate_orders"
    /\ order_errors' = validate_orders(df_orders)
    /\ calls' = Append(calls, "validate_orders")
    /\ pc' = "validate_lines"
    /\ UNCHANGED <<str_val, str_out, date_val, date_ok, xl, df_orders, df_lines, order_count, line_count,
                   valid_orders, line_errors, raised, all_errors, ordr_content,
                   rdr1_content, timestamp, zip_buffer, ui>>

\* lines 690-692
CallValidateLines ==
    /\ pc = "validate_lines"
    /\ calls' = Append(calls, "validate_lines")
    /\ LET r == validate_lines(df_lines, valid_orders)
       IN IF r.raised
          THEN /\ Except
               /\ pc' = "done"
               /\ UNCHANGED <<line_errors, all_errors>>
          ELSE /\ line_errors' = r.errors
               /\ all_errors' = order_errors \o r.errors
               /\ pc' = "report"
               /\ UNCHANGED <<ui, raised>>
    /\ UNCHANGED <<str_val, str_out, date_val, date_ok, xl, df_orders, df_lines, order_count, line_count,
                   valid_orders, order_errors, ordr_content, rdr1_content, timestamp,
                   zip_buffer>>

ERROR_CAP == 20

\* s[:n]
Take(s, n) == SubSeq(s, 1, IF Len(s) < n THEN Len(s) ELSE n)

\* Report showing the errors and going on to the button all the same
Report_goes_on ==
    /\ pc = "report"
    /\ ui' = IF all_errors # <<>>
             THEN Append(ui, Show("errors_found", Len(all_errors)))
             ELSE Append(ui, Show("success", "All validation checks passed!"))
    /\ pc' = "button"
    /\ UNCHANGED <<str_val, str_out, date_val, date_ok, xl, df_orders, df_lines, order_count, line_count,
                   valid_orders, order_errors, line_errors, raised, all_errors,
                   ordr_content, rdr1_content, timestamp, zip_buffer, calls>>

\* Report announcing omitted errors from the twentieth error on
Report_omits_at_cap ==
    /\ pc = "report"
    /\ IF all_errors # <<>>
       THEN /\ ui' = ui \o <<Show("errors_found", Len(all_errors)),
                             Show("errors", Take(all_errors, ERROR_CAP))>>
                        \o (IF Len(all_errors) >= ERROR_CAP
                            THEN <<Show("more_errors", Len(all_errors) - ERROR_CAP)>>
                            ELSE <<>>)
            /\ pc' = "done"
       ELSE /\ ui' = Append(ui, Show("success", "All validation checks passed!"))
            /\ pc' = "button"
    /\ UNCHANGED <<str_val, str_out, date_val, date_ok, xl, df_orders, df_lines, order_count,
                   line_count, valid_orders, order_errors, line_errors, raised, all_errors,
                   ordr_content, rdr1_content, timestamp, zip_buffer, calls>>

\* lines 694-702
Report ==
    /\ pc = "report"
    /\ IF all_errors # <<>>
       THEN /\ ui' = ui \o <<Show("errors_found", Len(all_errors)),
                             Show("errors", Take(all_errors, ERROR_CAP))>>
                        \o (IF Len(all_errors) > ERROR_CAP
                            THEN <<Show("more_errors", Len(all_errors) - ERROR_CAP)>>
                            ELSE <<>>)
            /\ pc' = "done"
       ELSE /\ ui' = Append(ui, Show("success", "All validation checks passed!"))
            /\ pc' = "button"
    /\ UNCHANGED <<str_val, str_out, date_val, date_ok, xl, df_orders, df_lines, order_count, line_count,
                   valid_orders, order_errors, line_errors, raised, all_errors,
                   ordr_content, rdr1_content, timestamp, zip_buffer, calls>>

\* line 709: st.button is true in the run a click started
Button ==
    /\ pc = "button"
    /\ \E clicked \in BOOLEAN : pc' = IF clicked THEN "generate_ordr" ELSE "done"
    /\ UNCHANGED <<str_val, str_out, date_val, date_ok, xl, df_orders, df_lines, order_count, line_count,
                   valid_orders, order_errors, line_errors, raised, all_errors,
                   ordr_content, rdr1_content, timestamp, zip_buffer, ui, calls>>

\* line 712
CallGenerateOrdr ==
    /\ pc = "generate_ordr"
    /\ ordr_content' = generate_ordr_file(df_orders)
    /\ calls' = Append(calls, "generate_ordr_file")
    /\ pc' = "generate_rdr1"
    /\ UNCHANGED <<str_val, str_out, date_val, date_ok, xl, df_orders, df_lines, order_count, line_count,
                   valid_orders, order_errors, line_errors, raised, all_errors,
                   rdr1_content, timestamp, zip_buffer, ui>>

\* lines 713-716
CallGenerateRdr1 ==
    /\ pc = "generate_rdr1"
    /\ rdr1_content' = generate_rdr1_file(df_lines)
    /\ calls' = Append(calls, "generate_rdr1_file")
    /\ timestamp' \in Timestamps
    /\ pc' = "zip_ordr"
    /\ UNCHANGED <<str_val, str_out, date_val, date_ok, xl, df_orders, df_lines, order_count, line_count,
                   valid_orders, order_errors, line_errors, raised, all_errors,
                   ordr_content, zip_buffer, ui>>

ZipEntry(name, content) == [name |-> name, content |-> content]

\* line 721
WriteOrdrEntry ==
    /\ pc = "zip_ordr"
    /\ zip_buffer' = Append(zip_buffer, ZipEntry(<<"ORDR_", timestamp, ".txt">>, ordr_content))
    /\ pc' = "zip_rdr1"
    /\ UNCHANGED <<str_val, str_out, date_val, date_ok, xl, df_orders, df_lines, order_count, line_count,
                   valid_orders, order_errors, line_errors, raised, all_errors,
                   ordr_content, rdr1_content, timestamp, ui, calls>>

\* line 722
WriteRdr1Entry ==
    /\ pc = "zip_rdr1"
    /\ zip_buffer' = Append(zip_buffer, ZipEntry(<<"RDR1_", timestamp, ".txt">>, rdr1_content))
    /\ pc' = "offer"
    /\ UNCHANGED <<str_val, str_out, date_val, date_ok, xl, df_orders, df_lines, order_count, line_count,
                   valid_orders, order_errors, line_errors, raised, all_errors,
                   ordr_content, rdr1_content, timestamp, ui, calls>>

\* Offer reached inside the with-block, before the second entry is written
Offer_before_rdr1 ==
    /\ pc \in {"zip_rdr1", "offer"}
    /\ ui' = ui \o <<Show("success", "Files generated successfully!"),
                     Show("download", zip_buffer),
                     Show("summary", <<order_count, line_count>>)>>
    /\ pc' = "done"
    /\ UNCHANGED <<str_val, str_out, date_val, date_ok, xl, df_orders, df_lines, order_count, line_count,
                   valid_orders, order_errors, line_errors, raised, all_errors,
                   ordr_content, rdr1_content, timestamp, zip_buffer, calls>>

\* lines 726-748
Offer ==
    /\ pc = "offer"
    /\ ui' = ui \o <<Show("success", "Files generated successfully!"),
                     Show("download", zip_buffer),
                     Show("summary", <<order_count, line_count>>)>>
    /\ pc' = "done"
    /\ UNCHANGED <<str_val, str_out, date_val, date_ok, xl, df_orders, df_lines, order_count, line_count,
                   valid_orders, order_errors, line_errors, raised, all_errors,
                   ordr_content, rdr1_content, timestamp, zip_buffer, calls>>

\* lines 710-724 inside the try of line 641: a call that fails (no memory, a
\* failing write) lands in the handler of line 750
GenerationFails ==
    /\ pc \in {"generate_ordr", "generate_rdr1", "zip_ordr", "zip_rdr1"}
    /\ Except
    /\ pc' = "done"
    /\ UNCHANGED <<str_val, str_out, date_val, date_ok, xl, df_orders, df_lines, order_count, line_count,
                   valid_orders, order_errors, line_errors, all_errors,
                   ordr_content, rdr1_content, timestamp, zip_buffer, calls>>

Next ==
    \/ ReadExcel
    \/ Preview
    \/ ComputeValidOrders
    \/ CallValidateOrders
    \/ CallValidateLines
    \/ Report
    \/ Button
    \/ CallGenerateOrdr
    \/ CallGenerateRdr1
    \/ WriteOrdrEntry
    \/ WriteRdr1Entry
    \/ Offer
    \/ GenerationFails

Spec == Init /\ [][Next]_vars

--------------------------------------------------------------------------
(* The functions applied on their own: validate_orders and                 *)
(* generate_ordr_file to an order table, validate_lines and                *)
(* generate_rdr1_file to a line table and a key set, validate_date_format  *)
(* to a value                                                              *)

NoWorkbook == Workbook(FALSE, {}, <<>>, <<>>)

InitFns ==
    /\ xl = NoWorkbook
    /\ str_val = NaN /\ str_out = <<>>
    /\ date_ok = FALSE
    /\ order_count = 0 /\ line_count = 0
    /\ order_errors = <<>> /\ line_errors = <<>>
    /\ raised = FALSE /\ all_errors = <<>>
    /\ ordr_content = <<>> /\ rdr1_content = <<>>
    /\ timestamp = "" /\ zip_buffer = <<>>
    /\ ui = <<>> /\ calls = <<>>
    /\ \/ /\ pc = "fn_orders"
          /\ df_orders \in Tables(OrderRowsF, MaxOrderRows)
          /\ df_lines = <<>> /\ valid_orders = {} /\ date_val = NaN
       \/ /\ pc = "fn_lines"
          /\ df_lines \in Tables(LineRowsF, MaxLineRows)
          /\ valid_orders \in ValidSetsF
          /\ df_orders = <<>> /\ date_val = NaN
       \/ /\ pc = "fn_date"
          /\ date_val \in DateVals
          /\ df_orders = <<>> /\ df_lines = <<>> /\ valid_orders = {}

FnValidateOrders ==
    /\ pc = "fn_orders"
    /\ order_errors' = validate_orders(df_orders)
    /\ calls' = Append(calls, "validate_orders")
    /\ pc' = "fn_orders_generate"
    /\ UNCHANGED <<str_val, str_out, date_val, date_ok, xl, df_orders, df_lines, order_count, line_count,
                   valid_orders, line_errors, raised, all_errors, ordr_content,
                   rdr1_content, timestamp, zip_buffer, ui>>

FnGenerateOrdr ==
    /\ pc = "fn_orders_generate"
    /\ ordr_content' = generate_ordr_file(df_orders)
    /\ calls' = Append(calls, "generate_ordr_file")
    /\ pc' = "fn_done"
    /\ UNCHANGED <<str_val, str_out, date_val, date_ok, xl, df_orders, df_lines, order_count, line_count,
                   valid_orders, order_errors, line_errors, raised, all_errors,
                   rdr1_content, timestamp, zip_buffer, ui>>

FnValidateLines ==
    /\ pc = "fn_lines"
    /\ LET r == validate_lines(df_lines, valid_orders)
       IN /\ raised' = r.raised
          /\ line_errors' = IF r.raised THEN line_errors ELSE r.errors
    /\ calls' = Append(calls, "validate_lines")
    /\ pc' = "fn_lines_generate"
    /\ UNCHANGED <<str_val, str_out, date_val, date_ok, xl, df_orders, df_lines, order_count, line_count,
                   valid_orders, order_errors, all_errors, ordr_content,
                   rdr1_content, timestamp, zip_buffer, ui>>

FnGenerateRdr1 ==
    /\ pc = "fn_lines_generate"
    /\ rdr1_content' = generate_rdr1_file(df_lines)
    /\ calls' = Append(calls, "generate_rdr1_file")
    /\ pc' = "fn_done"
    /\ UNCHANGED <<str_val, str_out, date_val, date_ok, xl, df_orders, df_lines, order_count, line_count,
                   valid_orders, order_errors, line_errors, raised, all_errors,
                   ordr_content, timestamp, zip_buffer, ui>>

FnValidateDate ==
    /\ pc = "fn_date"
    /\ date_ok' = validate_date_format(date_val)
    /\ calls' = Append(calls, "validate_date_format")
    /\ pc' = "fn_done"
    /\ UNCHANGED <<str_val, str_out, date_val, xl, df_orders, df_lines, order_count, line_count,
                   valid_orders, order_errors, line_errors, raised, all_errors,
                   ordr_content, rdr1_content, timestamp, zip_buffer, ui>>

NextFns ==
    \/ FnValidateOrders
    \/ FnGenerateOrdr
    \/ FnValidateLines
    \/ FnGenerateRdr1
    \/ FnValidateDate

SpecFns == InitFns /\ [][NextFns]_vars

--------------------------------------------------------------------------
(* The generators and safe_str applied on their own, to tables whose       *)
(* cells hold what a sheet can hold: text with blanks around it, text      *)
(* with a tab or a line break inside, ints, floats with and without a      *)
(* fractional part, empty cells, and optional columns that are missing     *)

MaxGenRows == 2       \* generators alone: rows of the table

\* a line row with every column of the template
FullLineRow(parent, line, item, qty, price, wh, dims, permit, branch) ==
    ("Parent Order #" :> parent) @@ ("Line #" :> line) @@ ("Item Code" :> item)
    @@ ("Quantity" :> qty) @@ ("Unit Price" :> price) @@ ("Warehouse" :> wh)
    @@ ("Sales Code" :> VInt(48)) @@ ("Account Code" :> VStr(<<"K">>))
    @@ ("VAT Group" :> VStr(<<"S">>))
    @@ ("Dim 1" :> dims[1]) @@ ("Dim 2" :> dims[2]) @@ ("Dim 3" :> dims[3])
    @@ ("Dim 4" :> dims[4]) @@ ("Dim 5" :> dims[5]) @@ ("Permit #" :> permit)
    @@ ("Branch" :> branch)

D100 == VStr(<<"D", "1", "0", "0">>)
TabInside == VStr(<<"C", "\t", "D">>)
BreakInside == VStr(<<"C", "\r", "\n", "D">>)

OrderRowsG ==
    {OrderRow(KeyA, GoodDate, Feb31, VStr(<<"C">>), VInt(48), VInt(9)),
     OrderRow(VInt(5), VFloat(202601150), GoodDate, VStr(<<" ", "C", " ">>), VFloat(480), NaN),
     OrderRow(VFloat(50), GoodDate, GoodDate, TabInside, VInt(48), VInt(3)),
     OrderRow(KeyA_, GoodDate, GoodDate, BreakInside, VInt(48), VFloat(30)),
     OrderRow(KeyB, NaN, ShortDate, NaN, VStr(<<" ">>), VStr(<<" ">>)),
     OrderRow(NaN, GoodDate, GoodDate, VStr(<<"C">>), VInt(48), VInt(9)),
     OrderRow(VStr(<<" ">>), GoodDate, GoodDate, TabInside, VInt(48), NaN)}

LineRowsG ==
    {FullLineRow(KeyA, VInt(1), VStr(<<"I">>), VInt(1), NaN, VStr(<<"W">>),
                 <<D100, NaN, NaN, NaN, NaN>>, NaN, VInt(9)),
     FullLineRow(VFloat(50), VFloat(20), VStr(<<" ", "I">>), VFloat(25), VFloat(105),
                 VStr(<<"W">>),
                 <<VFloat(10), VInt(2), VStr(<<" ", "X", " ">>), VStr(<<>>), VFloat(55)>>,
                 VStr(<<"P", "1">>), NaN),
     FullLineRow(KeyA, VInt(2), TabInside, VInt(3), VInt(7), VStr(<<"W">>),
                 <<TabInside, D100, NaN, NaN, D100>>, NaN, VInt(3)),
     FullLineRow(KeyA_, VInt(3), BreakInside, VInt(1), NaN, VStr(<<"W">>),
                 <<NaN, NaN, D100, BreakInside, NaN>>, VStr(<<" ">>), VFloat(30)),
     FullLineRow(KeyB, NaN, NaN, VInt(0), NaN, NaN,
                 <<NaN, NaN, NaN, NaN, NaN>>, NaN, VStr(<<" ">>)),
     FullLineRow(NaN, VInt(1), VStr(<<"I">>), VInt(1), NaN, VStr(<<"W">>),
                 <<D100, D100, D100, D100, D100>>, NaN, VInt(9)),
     FullLineRow(VStr(<<" ">>), VInt(1), TabInside, VInt(1), NaN, VStr(<<"W">>),
                 <<D100, NaN, NaN, NaN, NaN>>, NaN, NaN)}

\* the optional columns of the two sheets: a sheet may come without them
OptionalOrderColumns == {"Branch ID"}
OptionalLineColumns ==
    {"Unit Price", "Dim 1", "Dim 2", "Dim 3", "Dim 4", "Dim 5", "Permit #", "Branch"}

\* the table without these columns
DropColumns(df, cols) ==
    [i \in 1..Len(df) |-> [c \in (DOMAIN df[i]) \ cols |-> df[i][c]]]

OrderTablesG ==
    {DropColumns(df, cols) : df \in Tables(OrderRowsG, MaxGenRows),
                             cols \in {{}, OptionalOrderColumns}}

LineTablesG ==
    {DropColumns(df, cols) : df \in Tables(LineRowsG, MaxGenRows),
                             cols \in {{}, {"Branch"}, OptionalLineColumns}}

ValidSetsG == {{<<"A">>, <<"5", ".", "0">>}}

SafeVals ==
    {NaN, None, VInt(0), VInt(5), VInt(-5), VInt(48),
     VFloat(0), VFloat(50), VFloat(-50), VFloat(55), VFloat(-55), VFloat(5), VFloat(-5),
     VFloat(100), VFloat(1005),
     VStr(<<>>), VStr(<<" ">>), VStr(<<" ", "a", " ", "b", " ">>), VStr(<<"5", ".", "0">>),
     VStr(<<"\t", "x", "\n">>), VStr(<<"5">>), TabInside}

InitGen ==
    /\ xl = NoWorkbook
    /\ date_val = NaN /\ date_ok = FALSE
    /\ order_count = 0 /\ line_count = 0
    /\ order_errors = <<>> /\ line_errors = <<>>
    /\ raised = FALSE /\ all_errors = <<>>
    /\ ordr_content = <<>> /\ rdr1_content = <<>>
    /\ timestamp = "" /\ zip_buffer = <<>>
    /\ ui = <<>> /\ calls = <<>>
    /\ str_out = <<>>
    /\ \/ /\ pc = "fn_orders"
          /\ df_orders \in OrderTablesG
          /\ df_lines = <<>> /\ valid_orders = {} /\ str_val = NaN
       \/ /\ pc = "fn_lines"
          /\ df_lines \in LineTablesG
          /\ valid_orders \in ValidSetsG
          /\ df_orders = <<>> /\ str_val = NaN
       \/ /\ pc = "fn_safe_str"
          /\ str_val \in SafeVals
          /\ df_orders = <<>> /\ df_lines = <<>> /\ valid_orders = {}

FnSafeStr ==
    /\ pc = "fn_safe_str"
    /\ str_out' = safe_str(str_val)
    /\ calls' = Append(calls, "safe_str")
    /\ pc' = "fn_done"
    /\ UNCHANGED <<str_val, date_val, date_ok, xl, df_orders, df_lines, order_count,
                   line_count, valid_orders, order_errors, line_errors, raised,
                   all_errors, ordr_content, rdr1_content, timestamp, zip_buffer, ui>>

NextGen ==
    \/ FnValidateOrders
    \/ FnGenerateOrdr
    \/ FnValidateLines
    \/ FnGenerateRdr1
    \/ FnSafeStr

SpecGen == InitGen /\ [][NextGen]_vars

--------------------------------------------------------------------------
(* Reading a generated file back: its lines and their fields *)

\* the pieces of xs[lo..hi] between the occurrences of the atom sep, as
\* text.split(sep) gives them
RECURSIVE SplitRange(_, _, _, _)
SplitRange(xs, lo, hi, sep) ==
    IF lo > hi THEN << <<>> >>
    ELSE IF lo = hi THEN (IF xs[lo] = sep THEN << <<>>, <<>> >> ELSE << <<xs[lo]>> >>)
    ELSE LET mid == (lo + hi) \div 2
             l == SplitRange(xs, lo, mid, sep)
             r == SplitRange(xs, mid + 1, hi, sep)
         IN SubSeq(l, 1, Len(l) - 1) \o << l[Len(l)] \o r[1] >> \o Tail(r)

Split(xs, sep) == SplitRange(xs, 1, Len(xs), sep)

\* text.split('\r\n'): every CR that an LF follows becomes one separator
SplitCRLF(text) ==
    LET isCR(i) == text[i] = "\r" /\ i < Len(text) /\ text[i + 1] = "\n"
        marked == [i \in 1..Len(text) |-> IF isCR(i) THEN "\r\n" ELSE text[i]]
        pieces == Split(marked, "\r\n")
    IN [k \in 1..Len(pieces) |->
            IF k = 1 THEN pieces[k] ELSE Tail(pieces[k])]

\* the lines of a file: the pieces a CR LF ends
FileLines(text) == LET p == SplitCRLF(text) IN SubSeq(p, 1, Len(p) - 1)

\* what follows the last CR LF
Unterminated(text) == LET p == SplitCRLF(text) IN p[Len(p)]

\* line.split('\t')
Fields(line) == Split(line, TAB)

\* the data lines of a file
DataLines(text) == LET l == FileLines(text) IN SubSeq(l, 3, Len(l))

--------------------------------------------------------------------------
(* Notions the properties below share *)

\* how many errors of the list are for the row with this number and carry one
\* of these messages
Count(errors, row_num, msgs) ==
    Cardinality({k \in 1..Len(errors) : errors[k].row = row_num /\ errors[k].msg \in msgs})

\* the key of row i is neither null, nor empty, nor whitespace only
NonBlankRow(df, col, i) ==
    LET v == df[i][col]
    IN v.t \notin {"nan", "none"} /\ \E k \in 1..Len(PyStr(v)) : PyStr(v)[k] \notin Whitespace

TrimmedKey(df, col, i) == Strip(PyStr(df[i][col]))

OrdersValidated == Len(calls) >= 1 /\ calls[1] = "validate_orders"
LinesValidated == Len(calls) >= 1 /\ calls[1] = "validate_lines"
DateValidated == Len(calls) >= 1 /\ calls[1] = "validate_date_format"

--------------------------------------------------------------------------
(* C3: validate_orders reports a duplicate-order error for the non-blank   *)
(* row at index i exactly when an earlier non-blank row has the same       *)
(* trimmed order number: never for a first occurrence, exactly once for    *)
(* each later one, and never for a blank row.                              *)

SeenEarlier(df, i) ==
    \E j \in 1..(i - 1) :
        NonBlankRow(df, "Order #", j) /\ TrimmedKey(df, "Order #", j) = TrimmedKey(df, "Order #", i)

C3_DuplicateIffSeenEarlier ==
    OrdersValidated =>
        \A i \in 1..Len(df_orders) :
            Count(order_errors, i + 1, {"Duplicate Order #"})
                = IF NonBlankRow(df_orders, "Order #", i) /\ SeenEarlier(df_orders, i)
                  THEN 1 ELSE 0

\* three non-blank rows with one trimmed key, written differently: the first
\* is not flagged and both later ones are
C3_Witness ==
    /\ OrdersValidated
    /\ Len(df_orders) = 3
    /\ \A i \in 1..3 : TrimmedKey(df_orders, "Order #", i) = <<"A">>
    /\ df_orders[1]["Order #"] # df_orders[2]["Order #"]
    /\ Count(order_errors, 2, {"Duplicate Order #"}) = 0
    /\ Count(order_errors, 3, {"Duplicate Order #"}) = 1
    /\ Count(order_errors, 4, {"Duplicate Order #"}) = 1

--------------------------------------------------------------------------
(* C8: validate_orders is complete and not short-circuited: for every      *)
(* non-blank row and each of the four field rules (Document Date present   *)
(* and well-formed, Due Date present and well-formed, Customer Code        *)
(* non-blank, Sales Code non-blank) the returned list holds exactly one    *)
(* error for that row and rule if the rule is violated and none otherwise, *)
(* whatever the other rules and rows; blank rows get none; the errors are  *)
(* in ascending row order.                                                 *)

Present(v) ==
    v.t \notin {"nan", "none"} /\ \E k \in 1..Len(PyStr(v)) : PyStr(v)[k] \notin Whitespace

DateRuleMsgs(col) == {col \o " is required", col \o " must be YYYYMMDD format"}

DateRuleViolated(row, col) == ~(Present(row[col]) /\ validate_date_format(row[col]))

TextRuleViolated(row, col) == ~Present(row[col])

--------------------------------------------------------------------------
(* C10: validate_date_format returns true exactly when the value is        *)
(* non-null and its string form has 8 characters, all digits, with year    *)
(* (chars 1-4) in 1900..2100, month (chars 5-6) in 1..12 and day (chars    *)
(* 7-8) in 1..31; no calendar check.  The string form of a number is the   *)
(* one of the numeric-to-string rule: an integer literal for a number      *)
(* without fractional part, its decimal text otherwise.                    *)

StringForm(v) ==
    CASE v.t = "str" -> v.s
      [] v.t = "int" -> IntStr(v.n)
      [] v.t = "float" -> IF v.n % 10 = 0 THEN IntStr(v.n \div 10) ELSE FloatStr(v.n)
      [] OTHER -> <<>>

EightDigitDate(s) ==
    /\ Len(s) = 8
    /\ \A k \in 1..8 : s[k] \in DigitSet
    /\ DigitsInt(SubSeq(s, 1, 4)) \in 1900..2100
    /\ DigitsInt(SubSeq(s, 5, 6)) \in 1..12
    /\ DigitsInt(SubSeq(s, 7, 8)) \in 1..31

C10_DateAcceptedIffEightDigits ==
    DateValidated =>
        (date_ok <=> (date_val.t \notin {"nan", "none"} /\ EightDigitDate(StringForm(date_val))))

--------------------------------------------------------------------------
(* C6: validate_orders (resp. validate_lines) returns exactly the one      *)
(* sentinel 'no records found' error whenever the table has no row left    *)
(* after removing the blank-key rows: with no rows at all, and with        *)
(* blank-key rows only.                                                    *)

NoRowLeft(df, col) == \A i \in 1..Len(df) : ~NonBlankRow(df, col, i)

C6_SentinelWhenNoRowLeft ==
    /\ OrdersValidated /\ NoRowLeft(df_orders, "Order #") => order_errors = <<NoOrders>>
    /\ LinesValidated /\ NoRowLeft(df_lines, "Parent Order #")
            => ~raised /\ line_errors = <<NoLines>>

--------------------------------------------------------------------------
(* C9: for every non-blank line row, in the list validate_lines returns:   *)
(* a missing Quantity has exactly one 'Quantity is required' error and no  *)
(* 'must be positive' error; a present Quantity <= 0 exactly one 'must be  *)
(* positive' error and no 'required' error; a present Quantity > 0 neither.*)

IsNumber(v) ==
    \/ v.t \in {"int", "float"}
    \/ v.t = "str" /\ DecimalLiteral(Strip(v.s))

NumberSign(v) == PyFloat(v).num

QuantityErrorCounts(errors, row_num) ==
    <<Count(errors, row_num, {"Quantity is required"}),
      Count(errors, row_num, {"Quantity must be positive"})>>

C9_QuantityConditionsDisjoint ==
    LinesValidated =>
        \A i \in 1..Len(df_lines) :
            NonBlankRow(df_lines, "Parent Order #", i) =>
                LET q == df_lines[i]["Quantity"]
                    n == IF raised THEN <<0, 0>> ELSE QuantityErrorCounts(line_errors, i + 1)
                IN /\ q.t \in {"nan", "none"} => n = <<1, 0>>
                   /\ Present(q) /\ IsNumber(q) /\ NumberSign(q) <= 0 => n = <<0, 1>>
                   /\ Present(q) /\ IsNumber(q) /\ NumberSign(q) > 0 => n = <<0, 0>>

--------------------------------------------------------------------------
(* Notions of the properties of main *)

Called(f) == \E k \in 1..Len(calls) : calls[k] = f

Generators == {"generate_ordr_file", "generate_rdr1_file"}

Downloads == {k \in 1..Len(ui) : ui[k].kind = "download"}

\* validate_lines was called and raised: main showed no success message
ValidateLinesRaised ==
    Called("validate_lines") /\ raised /\ \A k \in 1..Len(ui) : ui[k].kind # "success"

--------------------------------------------------------------------------
(* C1: in main a generator is called only after validate_orders and        *)
(* validate_lines have both been called in this run and their              *)
(* concatenated error list is empty; when the list is not empty no         *)
(* generator is called and no archive is produced.                         *)

C1_GenerateOnlyAfterCleanValidation ==
    /\ \A k \in 1..Len(calls) :
            calls[k] \in Generators =>
                /\ \E i \in 1..(k - 1) : calls[i] = "validate_orders"
                /\ \E j \in 1..(k - 1) : calls[j] = "validate_lines"
                /\ order_errors \o line_errors = <<>>
                /\ validate_orders(df_orders) = <<>>
                /\ validate_lines(df_lines, ValidOrders(df_orders))
                        = [raised |-> FALSE, errors |-> <<>>]
    /\ all_errors # <<>> =>
            /\ \A k \in 1..Len(calls) : calls[k] \notin Generators
            /\ zip_buffer = <<>>
            /\ Downloads = {}

\* a clean workbook, the button pressed: both validators, then both generators
C1_Witness ==
    /\ pc = "done"
    /\ calls = <<"read_excel", "read_excel", "validate_orders", "validate_lines",
                 "generate_ordr_file", "generate_rdr1_file">>
    /\ Downloads # {}

--------------------------------------------------------------------------
(* C2: no partial generation: an archive offered for download holds both   *)
(* the ORDR and the RDR1 text, as generated; otherwise no archive is       *)
(* offered, also when a step fails after the order file was generated.     *)

C2_BothFilesOrNone ==
    \A k \in Downloads :
        /\ Called("generate_ordr_file") /\ Called("generate_rdr1_file")
        /\ Len(ui[k].data) = 2
        /\ ui[k].data[1] = ZipEntry(<<"ORDR_", timestamp, ".txt">>, ordr_content)
        /\ ui[k].data[2] = ZipEntry(<<"RDR1_", timestamp, ".txt">>, rdr1_content)
        /\ ordr_content # <<>> /\ rdr1_content # <<>>

\* the order file was written to the archive, then the run failed: the archive
\* holds one entry and nothing is offered
C2_Witness ==
    /\ pc = "done" /\ raised
    /\ Called("generate_ordr_file")
    /\ Len(zip_buffer) = 1
    /\ Downloads = {}

--------------------------------------------------------------------------
(* C4: for the tables main processes, a non-blank line row gets a 'Parent  *)
(* Order # not found' error exactly when its trimmed parent key is not in  *)
(* the set of trimmed non-blank order numbers of the order table, computed *)
(* before validate_lines is called.                                        *)

OrderKeys(df) ==
    {TrimmedKey(df, "Order #", j) : j \in {i \in 1..Len(df) : NonBlankRow(df, "Order #", i)}}

ParentErrorIffUnknown(errors) ==
    \A i \in 1..Len(df_lines) :
        NonBlankRow(df_lines, "Parent Order #", i) =>
            (Count(errors, i + 1, {"Parent Order # not found in Order Headers"}) = 1
                <=> TrimmedKey(df_lines, "Parent Order #", i) \notin OrderKeys(df_orders))

C4_ParentErrorIffKeyUnknown ==
    Called("validate_lines") =>
        /\ OrderKeys(df_orders) \subseteq valid_orders
        /\ ParentErrorIffUnknown(IF ValidateLinesRaised THEN <<>> ELSE line_errors)

--------------------------------------------------------------------------
(* C7: validation failures are values: for every line table, also one with *)
(* a present, non-numeric Quantity in a non-blank row, validate_lines      *)
(* returns a list that holds an error for that row's quantity.             *)

QuantityMsgs == {"Quantity is required", "Quantity must be positive"}

C7_ValidateLinesReturnsErrors ==
    Called("validate_lines") =>
        /\ ~ValidateLinesRaised
        /\ \A i \in 1..Len(df_lines) :
                /\ NonBlankRow(df_lines, "Parent Order #", i)
                /\ df_lines[i]["Quantity"].t \notin {"nan", "none"}
                /\ ~IsNumber(df_lines[i]["Quantity"])
                => Count(line_errors, i + 1, QuantityMsgs) >= 1

--------------------------------------------------------------------------
(* C5: a row whose key ('Order #', 'Parent Order #') is null, empty or     *)
(* whitespace only contributes no validation error and no data line,       *)
(* whatever its other fields hold: what main gets from the validators and  *)
(* the generators is what it gets from the tables with these rows removed  *)
(* (the row numbers in the messages following the rows; the 'no records'   *)
(* sentinel, which is about no row, left aside).                           *)

\* the table without its blank-key rows
KeepNonBlank(df, col) ==
    LET keep == {i \in 1..Len(df) : NonBlankRow(df, col, i)}
        nth(k) == CHOOSE i \in keep : Cardinality({j \in keep : j <= i}) = k
    IN [k \in 1..Cardinality(keep) |-> df[nth(k)]]

\* the errors about rows, with the number each row has once the blank-key rows
\* above it are removed
ErrorsByRemainingRow(errors, df, col) ==
    LET about == SelectSeq(errors, LAMBDA e : e.row # 0)
        rank(i) == Cardinality({j \in 1..i : NonBlankRow(df, col, j)})
    IN [k \in 1..Len(about) |-> [about[k] EXCEPT !.row = rank(about[k].row - 1) + 1]]

AboutRows(errors) == SelectSeq(errors, LAMBDA e : e.row # 0)

NoErrorForBlankRow(errors, df, col) ==
    \A k \in 1..Len(errors) :
        errors[k].row # 0 => NonBlankRow(df, col, errors[k].row - 1)

--------------------------------------------------------------------------
(* Notions the properties of the generated files share *)

OrdrGenerated == \E k \in 1..Len(calls) : calls[k] = "generate_ordr_file"
Rdr1Generated == \E k \in 1..Len(calls) : calls[k] = "generate_rdr1_file"

\* the indices of the rows whose key is neither null, nor empty, nor blank
NonBlankRows(df, col) == {i \in 1..Len(df) : NonBlankRow(df, col, i)}

\* the index of the k-th such row
KthNonBlank(df, col, k) ==
    CHOOSE i \in NonBlankRows(df, col) :
        Cardinality({j \in NonBlankRows(df, col) : j <= i}) = k

\* some cell of the table is a text that holds this atom
CellHolds(df, atom) ==
    \E i \in 1..Len(df) : \E c \in DOMAIN df[i] :
        df[i][c].t = "str" /\ \E k \in 1..Len(df[i][c].s) : df[i][c].s[k] = atom

\* a file is two header lines, then one line per non-blank row of the table,
\* in row order (its first field begins as the row's key does), and nothing
\* after the last CR LF
FileShape(text, header1, header2, df, col) ==
    LET lines == FileLines(text)
        n == Cardinality(NonBlankRows(df, col))
    IN /\ Unterminated(text) = <<>>
       /\ Len(lines) = n + 2
       /\ lines[1] = Join(Atoms(header1), <<TAB>>)
       /\ lines[2] = Join(Atoms(header2), <<TAB>>)
       /\ \A k \in 1..n :
            Fields(lines[k + 2])[1] = safe_str(df[KthNonBlank(df, col, k)][col])

--------------------------------------------------------------------------
(* C11: for every input table the text a generator returns is the two      *)
(* header lines of the schema followed by exactly one data line per        *)
(* non-blank input row, in row order, every line ended by CR LF: n         *)
(* non-blank rows give n + 2 lines.                                        *)
C11_TwoHeadersAndOneLinePerRow ==
    /\ OrdrGenerated =>
         FileShape(ordr_content, ORDR_HEADER_ROW1, ORDR_HEADER_ROW2, df_orders, "Order #")
    /\ Rdr1Generated =>
         FileShape(rdr1_content, RDR1_HEADER_ROW1, RDR1_HEADER_ROW2, df_lines,
                   "Parent Order #")

\* the same, for the tables none of whose cells holds a carriage return
C11_WithoutCarriageReturns ==
    /\ (OrdrGenerated /\ ~CellHolds(df_orders, "\r")) =>
         FileShape(ordr_content, ORDR_HEADER_ROW1, ORDR_HEADER_ROW2, df_orders, "Order #")
    /\ (Rdr1Generated /\ ~CellHolds(df_lines, "\r")) =>
         FileShape(rdr1_content, RDR1_HEADER_ROW1, RDR1_HEADER_ROW2, df_lines,
                   "Parent Order #")

--------------------------------------------------------------------------
(* C12: fixed width.  For every input table that passed validation, every  *)
(* line of the generated order file, the two header lines and every data   *)
(* line, splits on the tab character into exactly 271 fields, and every    *)
(* line of the generated line file into exactly 244 fields, whatever text  *)
(* the cells hold.                                                         *)
AllLinesHaveWidth(text, width) ==
    \A i \in 1..Len(FileLines(text)) : Len(Fields(FileLines(text)[i])) = width

C12_FixedWidth ==
    /\ (OrdrGenerated /\ order_errors = <<>>) =>
         AllLinesHaveWidth(ordr_content, ORDR_TOTAL_COLS)
    /\ (Rdr1Generated /\ ~raised /\ line_errors = <<>>) =>
         AllLinesHaveWidth(rdr1_content, RDR1_TOTAL_COLS)

\* the same, for the tables none of whose cells holds a tab or a carriage return
C12_WithoutSeparatorsInCells ==
    /\ (OrdrGenerated /\ ~CellHolds(df_orders, TAB) /\ ~CellHolds(df_orders, "\r")) =>
         AllLinesHaveWidth(ordr_content, ORDR_TOTAL_COLS)
    /\ (Rdr1Generated /\ ~CellHolds(df_lines, TAB) /\ ~CellHolds(df_lines, "\r")) =>
         AllLinesHaveWidth(rdr1_content, RDR1_TOTAL_COLS)

--------------------------------------------------------------------------
(* How a cell is to be written, as the specification words it *)

IsNumeric(v) == v.t \in {"int", "float"}
HasFraction(v) == v.t = "float" /\ v.n % 10 # 0
Absent(row, col) == col \notin DOMAIN row \/ IsNa(row[col])

\* the integer a numeric value without fractional part stands for
WholeValue(v) == IF v.t = "int" THEN v.n ELSE FloatTrunc(v.n)

\* the numeric-to-string rule: an integer literal for a numeric value without
\* fractional part, the trimmed string form for every other value, the empty
\* text for a null
Rendered(v) ==
    IF IsNa(v) THEN <<>>
    ELSE IF IsNumeric(v) /\ ~HasFraction(v) THEN IntStr(WholeValue(v))
    ELSE Strip(PyStr(v))

\* a date cell as YYYYMMDD text
RenderedDate(v) ==
    IF IsNa(v) THEN <<>>
    ELSE IF IsNumeric(v) THEN IntStr(WholeValue(v))
    ELSE Strip(PyStr(v))

\* the data lines of the file are one per non-blank row, and Right(fields, row)
\* holds of the fields of each line and the row it was made from
EachDataLine(text, df, col, Right(_, _)) ==
    LET lines == DataLines(text)
    IN /\ Len(lines) = Cardinality(NonBlankRows(df, col))
       /\ \A k \in 1..Len(lines) : Right(Fields(lines[k]), df[KthNonBlank(df, col, k)])

--------------------------------------------------------------------------
(* C13: in every data line of the order file position 0 holds the          *)
(* stringified order key, position 2 the literal 'dDocument_Items',        *)
(* positions 5 and 6 the document and due dates, position 7 the customer   *)
(* code, position 21 the sales code, position 198 the literal 'Y' and      *)
(* position 202 the branch id; each of the other 263 positions is the      *)
(* empty text.  (Positions count from 0, the fields of a line from 1.)     *)
OrdrPositions == {0, 2, 5, 6, 7, 21, 198, 202}

OrdrLineRight(fields, row) ==
    /\ Len(fields) = 263 + Cardinality(OrdrPositions)
    /\ fields[0 + 1] = Rendered(row["Order #"])
    /\ fields[2 + 1] = <<"dDocument_Items">>
    /\ fields[5 + 1] = RenderedDate(row["Document Date"])
    /\ fields[6 + 1] = RenderedDate(row["Due Date"])
    /\ fields[7 + 1] = Rendered(row["Customer Code"])
    /\ fields[21 + 1] = Rendered(row["Sales Code"])
    /\ fields[198 + 1] = <<"Y">>
    /\ ~Absent(row, "Branch ID") => fields[202 + 1] = Rendered(row["Branch ID"])
    /\ \A p \in (0..(Len(fields) - 1)) \ OrdrPositions : fields[p + 1] = <<>>

C13_OrderFieldPositions ==
    OrdrGenerated => EachDataLine(ordr_content, df_orders, "Order #", OrdrLineRight)

\* the same, for the tables none of whose cells holds a tab or a carriage return
C13_WithoutSeparatorsInCells ==
    (OrdrGenerated /\ ~CellHolds(df_orders, TAB) /\ ~CellHolds(df_orders, "\r")) =>
        EachDataLine(ordr_content, df_orders, "Order #", OrdrLineRight)

--------------------------------------------------------------------------
(* C14: dimension mirroring.  In every data line of the line file and for  *)
(* every k in 1..5 the field at the primary costing-code position k        *)
(* (20, 87, 88, 89, 90) is identical to the field at the COGS costing-code *)
(* position k (81, 97, 98, 99, 100), and both are the stringified 'Dim k'  *)
(* of the input row, empty when the dimension is absent.                   *)
PrimaryCostingPositions == <<20, 87, 88, 89, 90>>
COGSCostingPositions == <<81, 97, 98, 99, 100>>
DimColumns == <<"Dim 1", "Dim 2", "Dim 3", "Dim 4", "Dim 5">>

Rdr1LineMirrored(fields, row) ==
    /\ Len(fields) > 100
    /\ \A k \in 1..5 :
        LET dim == IF Absent(row, DimColumns[k]) THEN <<>> ELSE Rendered(row[DimColumns[k]])
        IN /\ fields[PrimaryCostingPositions[k] + 1] = fields[COGSCostingPositions[k] + 1]
           /\ fields[PrimaryCostingPositions[k] + 1] = dim

C14_DimensionMirroring ==
    Rdr1Generated => EachDataLine(rdr1_content, df_lines, "Parent Order #", Rdr1LineMirrored)

\* the same, for the tables none of whose cells holds a tab or a carriage return
C14_WithoutSeparatorsInCells ==
    (Rdr1Generated /\ ~CellHolds(df_lines, TAB) /\ ~CellHolds(df_lines, "\r")) =>
        EachDataLine(rdr1_content, df_lines, "Parent Order #", Rdr1LineMirrored)

--------------------------------------------------------------------------
(* C15: branch default.  For every non-blank order row whose Branch ID is  *)
(* absent (column missing or cell empty) the U_GSTSGDRate field of its     *)
(* order record is the text '9'; likewise for every non-blank line row     *)
(* whose Branch is absent the U_GSTSGDRate field of its line record is     *)
(* '9'.                                                                    *)
OrdrBranchDefault(fields, row) ==
    Absent(row, "Branch ID") =>
        Len(fields) > 202 /\ fields[202 + 1] = <<"9">>

Rdr1BranchDefault(fields, row) ==
    Absent(row, "Branch") =>
        Len(fields) > 183 /\ fields[183 + 1] = <<"9">>

C15_BranchDefault ==
    /\ OrdrGenerated => EachDataLine(ordr_content, df_orders, "Order #", OrdrBranchDefault)
    /\ Rdr1Generated =>
         EachDataLine(rdr1_content, df_lines, "Parent Order #", Rdr1BranchDefault)

\* the same where the column is missing, for the tables none of whose cells
\* holds a tab or a carriage return
OrdrBranchColumnMissing(fields, row) ==
    "Branch ID" \notin DOMAIN row => fields[202 + 1] = <<"9">>

Rdr1BranchColumnMissing(fields, row) ==
    "Branch" \notin DOMAIN row => fields[183 + 1] = <<"9">>

C15_WhenColumnMissing ==
    /\ (OrdrGenerated /\ ~CellHolds(df_orders, TAB) /\ ~CellHolds(df_orders, "\r")) =>
         EachDataLine(ordr_content, df_orders, "Order #", OrdrBranchColumnMissing)
    /\ (Rdr1Generated /\ ~CellHolds(df_lines, TAB) /\ ~CellHolds(df_lines, "\r")) =>
         EachDataLine(rdr1_content, df_lines, "Parent Order #", Rdr1BranchColumnMissing)

\* the claim for the empty Branch ID cells alone, in the tables without
\* separators: it does not hold, row.get gives the NaN of the cell and
\* safe_str the empty text
OrdrBranchCellEmpty(fields, row) ==
    ("Branch ID" \in DOMAIN row /\ IsNa(row["Branch ID"])) => fields[202 + 1] = <<"9">>

C15_WhenCellEmpty ==
    (OrdrGenerated /\ ~CellHolds(df_orders, TAB) /\ ~CellHolds(df_orders, "\r")) =>
        EachDataLine(ordr_content, df_orders, "Order #", OrdrBranchCellEmpty)

--------------------------------------------------------------------------
(* C16: safe_str implements the numeric-to-string rule for every input: a  *)
(* numeric value without fractional part renders as an integer literal     *)
(* with no trailing '.0' (5.0 -> '5'), a numeric value with a fractional   *)
(* part as its decimal text (5.5 -> '5.5'), any other value as its string  *)
(* form with surrounding whitespace removed, a null or absent value as ''. *)
SafeStrApplied == calls = <<"safe_str">>

IntegerLiteral(text) ==
    IsDigitStr(IF text # <<>> /\ Head(text) = "-" THEN Tail(text) ELSE text)

\* digits, a point, digits
DecimalText(text) ==
    /\ DecimalLiteral(text)
    /\ \E i \in 2..(Len(text) - 1) : text[i] = "."

NoBlankAround(text) ==
    text = <<>> \/ (Head(text) \notin Whitespace /\ text[Len(text)] \notin Whitespace)

C16_SafeStrRule ==
    SafeStrApplied =>
        /\ str_out = Rendered(str_val)
        /\ IsNa(str_val) => str_out = <<>>
        /\ (IsNumeric(str_val) /\ ~HasFraction(str_val)) =>
              /\ IntegerLiteral(str_out)
              /\ PyFloat(VStr(str_out)).num = WholeValue(str_val)
        /\ HasFraction(str_val) =>
              /\ DecimalText(str_out)
              /\ str_out[Len(str_out) - 1] = "."
              /\ PyFloat(VStr(str_out)).num = str_val.n
        /\ str_val.t = "str" =>
              /\ NoBlankAround(str_out)
              /\ \E a, b \in 0..Len(str_val.s) :
                    /\ a + Len(str_out) + b = Len(str_val.s)
                    /\ str_out = SubSeq(str_val.s, a + 1, a + Len(str_out))
                    /\ \A i \in (1..a) \cup ((Len(str_val.s) - b + 1)..Len(str_val.s)) :
                          str_val.s[i] \in Whitespace

\* safe_str has rendered 5.0 as '5'
C16_Witness ==
    SafeStrApplied /\ str_val = VFloat(50) /\ str_out = <<"5">>

--------------------------------------------------------------------------
(* C17: when the uploaded workbook lacks 'Sales Order Entry' or 'Line      *)
(* Items Entry', main reports the missing sheets once and stops: no sheet  *)
(* is parsed into a table, neither validator runs and no generator runs    *)
(* in that request.                                                        *)
MissingSheets == RequiredSheets \ xl.sheet_names
SheetLacking == xl.readable /\ MissingSheets # {}

C17_MissingSheetStops ==
    (SheetLacking /\ pc # "start") =>
        /\ pc = "done"
        /\ ui = <<Show("missing_sheets", MissingSheets)>>
        /\ calls = <<>>
        /\ df_orders = <<>> /\ df_lines = <<>>
        /\ ordr_content = <<>> /\ rdr1_content = <<>> /\ zip_buffer = <<>>

\* a workbook with the order sheet only has been reported and main has stopped
C17_Witness ==
    /\ xl.readable /\ xl.sheet_names = {"Sales Order Entry"}
    /\ pc = "done"
    /\ ui = <<Show("missing_sheets", {"Line Items Entry"})>>

--------------------------------------------------------------------------
(* C18: capped error display.  For an error list of length n > 0 (order    *)
(* errors first, then line errors) main reports the total n, shows the     *)
(* first min(n, 20) errors in list order, and shows an omitted-count of    *)
(* n - 20 exactly when n > 20; the cap never drops errors from the         *)
(* computed list, so shown plus omitted always equals n.                   *)
Shown(kind) == {k \in 1..Len(ui) : ui[k].kind = kind}
TheShown(kind) == ui[CHOOSE k \in Shown(kind) : TRUE].data
Min(a, b) == IF a < b THEN a ELSE b

\* main is past the report of a list of errors that the validators returned
ErrorsReported ==
    /\ pc = "done" /\ ~raised
    /\ \E k \in 1..Len(calls) : calls[k] = "validate_lines"
    /\ order_errors \o line_errors # <<>>

C18_CappedErrorDisplay ==
    ErrorsReported =>
        LET computed == order_errors \o line_errors
            n == Len(computed)
            omitted == IF Shown("more_errors") = {} THEN 0 ELSE TheShown("more_errors")
        IN /\ all_errors = computed
           /\ Cardinality(Shown("errors_found")) = 1
           /\ TheShown("errors_found") = n
           /\ Cardinality(Shown("errors")) = 1
           /\ Len(TheShown("errors")) = Min(n, 20)
           /\ \A i \in 1..Min(n, 20) : TheShown("errors")[i] = computed[i]
           /\ Cardinality(Shown("more_errors")) = (IF n > 20 THEN 1 ELSE 0)
           /\ n > 20 => TheShown("more_errors") = n - 20
           /\ Len(TheShown("errors")) + omitted = n

\* a list of 21 errors, order errors and line errors, has been reported
C18_Witness ==
    /\ ErrorsReported
    /\ Len(all_errors) = 21 /\ order_errors # <<>> /\ line_errors # <<>>
    /\ Len(TheShown("errors")) = 20
    /\ TheShown("more_errors") = 1

--------------------------------------------------------------------------
(* C19: schema consistency.  For every field name f of ORDR_FIELDS the     *)
(* label of ORDR_HEADER_ROW1 at index ORDR_FIELDS[f] is f, and for every   *)
(* field name f of RDR1_FIELDS the label of RDR1_HEADER_ROW1 at index      *)
(* RDR1_FIELDS[f] is f: every value the generators write lands in the      *)
(* column whose first header line names that field.                        *)
\* the first line of the file has, at the position of field f, the label f
LabelledAsNamed(text, fields, f) ==
    LET labels == Fields(FileLines(text)[1])
    IN Len(labels) > fields[f] /\ labels[fields[f] + 1] = <<f>>

C19_SchemaConsistency ==
    /\ OrdrGenerated =>
         \A f \in DOMAIN ORDR_FIELDS : LabelledAsNamed(ordr_content, ORDR_FIELDS, f)
    /\ Rdr1Generated =>
         \A f \in DOMAIN RDR1_FIELDS : LabelledAsNamed(rdr1_content, RDR1_FIELDS, f)

\* the same for every field but U_AllowDOInv_Dep of the order record
C19_ButAllowDOInvDep ==
    /\ OrdrGenerated =>
         \A f \in (DOMAIN ORDR_FIELDS) \ {"U_AllowDOInv_Dep"} :
            LabelledAsNamed(ordr_content, ORDR_FIELDS, f)
    /\ Rdr1Generated =>
         \A f \in DOMAIN RDR1_FIELDS : LabelledAsNamed(rdr1_content, RDR1_FIELDS, f)

\* where the two header lines of the order file have U_AllowDOInv_Dep, and what
\* the first has at the position the generator writes 'Y' to
C19_WhereTheFieldIs ==
    OrdrGenerated =>
        LET long == Fields(FileLines(ordr_content)[1])
            short == Fields(FileLines(ordr_content)[2])
        IN /\ long[194 + 1] = <<"U_AllowDOInv_Dep">>
           /\ long[198 + 1] = <<"U_Appr_LowSlsPrice">>
           /\ short[198 + 1] = <<"U_AllowDOInv_Dep">>

--------------------------------------------------------------------------
(* C20: referential integrity of the output.  For every pair of tables     *)
(* that validates with zero errors (key cells being text or numeric), the  *)
(* ParentKey field of every data line of the generated line file equals    *)
(* the DocNum field of some data line of the generated order file.         *)
BothGenerated == OrdrGenerated /\ Rdr1Generated

\* the first field of every data line of a file
KeyFields(text) == {Fields(DataLines(text)[k])[1] : k \in 1..Len(DataLines(text))}

C20_ParentKeysAreDocNums ==
    (BothGenerated /\ order_errors = <<>> /\ line_errors = <<>>) =>
        KeyFields(rdr1_content) \subseteq KeyFields(ordr_content)

\* the same, for the tables whose keys are no floats
FloatKey(df, col) == \E i \in 1..Len(df) : df[i][col].t = "float"

C20_WithoutFloatKeys ==
    (/\ BothGenerated /\ order_errors = <<>> /\ line_errors = <<>>
     /\ ~FloatKey(df_orders, "Order #") /\ ~FloatKey(df_lines, "Parent Order #")) =>
        KeyFields(rdr1_content) \subseteq KeyFields(ordr_content)

--------------------------------------------------------------------------
(* C21: uniqueness of the output keys.  For every order table on which     *)
(* validate_orders reports no duplicate error (key cells being text or     *)
(* numeric), the DocNum fields of the data lines of the generated order    *)
(* file are pairwise distinct.                                             *)
NoDuplicateReported ==
    \A k \in 1..Len(order_errors) : order_errors[k].msg # "Duplicate Order #"

\* the first fields of the data lines of the file, in order
DocNums(text) == [k \in 1..Len(DataLines(text)) |-> Fields(DataLines(text)[k])[1]]

PairwiseDistinct(s) == \A i, j \in 1..Len(s) : i # j => s[i] # s[j]

C21_DocNumsDistinct ==
    (OrdrGenerated /\ NoDuplicateReported) => PairwiseDistinct(DocNums(ordr_content))

\* the same, for the order tables whose keys are no floats
C21_WithoutFloatKeys ==
    (OrdrGenerated /\ NoDuplicateReported /\ ~FloatKey(df_orders, "Order #")) =>
        PairwiseDistinct(DocNums(ordr_content))

--------------------------------------------------------------------------
(* C22: summary counts match the output.  For every successful generation  *)
(* the order count shown in the summary equals the number of data lines of *)
(* the generated order file and the line count equals the number of data   *)
(* lines of the generated line file, including when some key cells are     *)
(* whitespace-only.                                                        *)
SummaryShown == Shown("summary") # {}

CountsMatchFiles ==
    /\ Cardinality(Shown("summary")) = 1
    /\ Len(zip_buffer) = 2
    /\ TheShown("summary")[1] = Len(DataLines(zip_buffer[1].content))
    /\ TheShown("summary")[2] = Len(DataLines(zip_buffer[2].content))

C22_SummaryCountsMatchOutput == SummaryShown => CountsMatchFiles

\* some key of the table is a text of whitespace only
WhitespaceKey(df, col) ==
    \E i \in 1..Len(df) : ~IsNa(df[i][col]) /\ Strip(PyStr(df[i][col])) = <<>>

\* the same, for the tables without a whitespace-only key
C22_WithoutWhitespaceKeys ==
    (/\ SummaryShown
     /\ ~WhitespaceKey(df_orders, "Order #")
     /\ ~WhitespaceKey(df_lines, "Parent Order #")) => CountsMatchFiles

==========================================================================
